---- MODULE Spec2Model ----
(***************************************************************************)
(* beadcrumbs: the relational store (internal/store), the JSONL log codec  *)
(* (internal/jsonl) and the graph traversals built on them (cmd/bdc).      *)
(*                                                                         *)
(* A Go string is modelled as a sequence of character tokens.  A token is  *)
(* one character ("a", "n", a line feed, a quote, a backslash, ...), or an *)
(* atom standing for a fixed run of plain characters: an identifier such   *)
(* as "ins-1", an enumeration word such as "discovery", and RUN, a block   *)
(* of MaxScanTokenSize plain characters (run-length compression of a long  *)
(* text).  A file is the sequence of the tokens it holds.                  *)
(***************************************************************************)
EXTENDS Integers, Sequences, FiniteSets, TLC

VARIABLES
    insights,       \* rows of table insights
    threads,        \* rows of table threads
    dependencies,   \* rows of table dependencies
    last,           \* outcome of the last store operation
    tr,             \* the walk of traceChain: position, current node, visited set, chain
    kind,           \* codec: entity type of the file ("insights", "threads", "deps")
    exported,       \* codec: the collection handed to the last Export
    file,           \* codec: content of the log file
    orig,           \* codec: content of the log file before blank lines were inserted
    imported,       \* codec: outcome of the last Import
    blanks,         \* codec: number of blank lines inserted so far
    config,         \* rows of table config
    db,             \* the database file: its schema, the handle on it, the NewStore call
    run             \* the command that is running: arguments, position, output

vars == <<insights, threads, dependencies, last, tr, kind, exported, file, orig, imported, blanks,
          config, db, run>>
storeVars == <<insights, threads, dependencies, last, tr>>
codecVars == <<kind, exported, file, orig, imported, blanks>>
sysVars == <<config, db, run>>

(***************************************************************************)
(* Bounds                                                                  *)
(***************************************************************************)
MaxRecords == 2      \* longest collection handed to Export
MaxLines == 2        \* most lines of a hand-written log file
MaxBlanks == 2       \* most blank lines inserted into a log file
MaxTime == 2         \* timestamps are 0..MaxTime, 0 being the zero time
MaxDeps == 3         \* most rows of table dependencies

\* bufio.MaxScanTokenSize, the buffer limit of the bufio.Scanner readJSONL creates
MaxScanTokenSize == 65536

(***************************************************************************)
(* Go values                                                               *)
(***************************************************************************)
LF == "\n"
CR == "\r"
QUOTE == "\""
BACKSLASH == "\\"
RUN == "RUN"

\* a Go slice of strings: nil, or non-nil with zero or more elements
NilSlice == [isnil |-> TRUE, elems |-> <<>>]
EmptySlice == [isnil |-> FALSE, elems |-> <<>>]
MkSlice(es) == [isnil |-> FALSE, elems |-> es]

\* len(string) in bytes
ByteLen(s) ==
    LET runs == Cardinality({i \in 1..Len(s) : s[i] = RUN})
    IN (Len(s) - runs) + runs * MaxScanTokenSize

\* types.InsightSource
InsightSource(type, ref, participants) ==
    [Type |-> type, Ref |-> ref, Participants |-> participants]

\* the zero values of the three entity structs
ZeroInsight ==
    [ID |-> <<>>, Timestamp |-> 0, Content |-> <<>>, Summary |-> <<>>,
     Type |-> <<>>, Confidence |-> 0,
     Source |-> InsightSource(<<>>, <<>>, NilSlice),
     ThreadID |-> <<>>, AuthorID |-> <<>>, EndorsedBy |-> NilSlice,
     Tags |-> NilSlice, CreatedBy |-> <<>>, CreatedAt |-> 0]

ZeroThread ==
    [ID |-> <<>>, Title |-> <<>>, Status |-> <<>>, CurrentUnderstanding |-> <<>>,
     CreatedAt |-> 0, UpdatedAt |-> 0]

ZeroDependency ==
    [From |-> <<>>, To |-> <<>>, Type |-> <<>>, CreatedAt |-> 0]

(***************************************************************************)
(* encoding/json as used by json.Encoder.Encode and json.Marshal           *)
(***************************************************************************)
\* numbers and times the model writes
Nums == 0..MaxTime
NumTok(n) == ToString(n)
NumOf(tok) == CHOOSE n \in Nums : NumTok(n) = tok
NumToks == {NumTok(n) : n \in Nums}

\* the key tokens: "k:id" stands for the text "id": of an object member
InsightKeys == {"k:id", "k:timestamp", "k:content", "k:summary", "k:type",
                "k:confidence", "k:source", "k:thread_id", "k:author_id",
                "k:endorsed_by", "k:labels", "k:created_by", "k:created_at"}
SourceKeys == {"k:type", "k:ref", "k:participants"}
ThreadKeys == {"k:id", "k:title", "k:status", "k:current_understanding",
               "k:created_at", "k:updated_at"}
DependencyKeys == {"k:from", "k:to", "k:type", "k:created_at"}
KeyToks == InsightKeys \cup SourceKeys \cup ThreadKeys \cup DependencyKeys \cup {"k:unknown"}

\* an encoder that writes a line feed of a string as it is
EscapeChar_RawLF(c) ==
    CASE c = CR -> <<BACKSLASH, "r">>
      [] c = QUOTE -> <<BACKSLASH, QUOTE>>
      [] c = BACKSLASH -> <<BACKSLASH, BACKSLASH>>
      [] OTHER -> <<c>>

\* a string literal: quote, backslash and control characters are escaped
EscapeChar(c) ==
    CASE c = LF -> <<BACKSLASH, "n">>
      [] c = CR -> <<BACKSLASH, "r">>
      [] c = QUOTE -> <<BACKSLASH, QUOTE>>
      [] c = BACKSLASH -> <<BACKSLASH, BACKSLASH>>
      [] OTHER -> <<c>>

RECURSIVE EscapeString(_)
EscapeString(s) ==
    IF s = <<>> THEN <<>> ELSE EscapeChar(Head(s)) \o EscapeString(Tail(s))

EncodeString(s) == <<QUOTE>> \o EscapeString(s) \o <<QUOTE>>

\* time.Time.MarshalJSON: the quoted RFC 3339 text of the instant
EncodeTime(t) == <<QUOTE, "T", NumTok(t), QUOTE>>

EncodeNumber(n) == <<NumTok(n)>>

RECURSIVE JoinComma(_)
JoinComma(parts) ==
    IF parts = <<>> THEN <<>>
    ELSE IF Len(parts) = 1 THEN Head(parts)
    ELSE Head(parts) \o <<",">> \o JoinComma(Tail(parts))

\* []string: a nil slice is null, any other slice is an array
EncodeStringSlice(sl) ==
    IF sl.isnil THEN <<"null">>
    ELSE <<"[">> \o JoinComma([i \in 1..Len(sl.elems) |-> EncodeString(sl.elems[i])]) \o <<"]">>

Member(k, v) == << <<k>> \o v >>
\* a member tagged omitempty is left out when its value is empty
OmitEmpty(k, isEmpty, v) == IF isEmpty THEN <<>> ELSE Member(k, v)
EncodeObject(members) == <<"{">> \o JoinComma(members) \o <<"}">>

EncodeSource(src) ==
    EncodeObject(
        Member("k:type", EncodeString(src.Type))
        \o OmitEmpty("k:ref", src.Ref = <<>>, EncodeString(src.Ref))
        \o OmitEmpty("k:participants", Len(src.Participants.elems) = 0,
                     EncodeStringSlice(src.Participants)))

EncodeInsight(i) ==
    EncodeObject(
        Member("k:id", EncodeString(i.ID))
        \o Member("k:timestamp", EncodeTime(i.Timestamp))
        \o Member("k:content", EncodeString(i.Content))
        \o Member("k:summary", EncodeString(i.Summary))
        \o Member("k:type", EncodeString(i.Type))
        \o Member("k:confidence", EncodeNumber(i.Confidence))
        \o Member("k:source", EncodeSource(i.Source))
        \o OmitEmpty("k:thread_id", i.ThreadID = <<>>, EncodeString(i.ThreadID))
        \o OmitEmpty("k:author_id", i.AuthorID = <<>>, EncodeString(i.AuthorID))
        \o OmitEmpty("k:endorsed_by", Len(i.EndorsedBy.elems) = 0,
                     EncodeStringSlice(i.EndorsedBy))
        \o OmitEmpty("k:labels", Len(i.Tags.elems) = 0, EncodeStringSlice(i.Tags))
        \o OmitEmpty("k:created_by", i.CreatedBy = <<>>, EncodeString(i.CreatedBy))
        \o Member("k:created_at", EncodeTime(i.CreatedAt)))

EncodeThread(t) ==
    EncodeObject(
        Member("k:id", EncodeString(t.ID))
        \o Member("k:title", EncodeString(t.Title))
        \o Member("k:status", EncodeString(t.Status))
        \o OmitEmpty("k:current_understanding", t.CurrentUnderstanding = <<>>,
                     EncodeString(t.CurrentUnderstanding))
        \o Member("k:created_at", EncodeTime(t.CreatedAt))
        \o Member("k:updated_at", EncodeTime(t.UpdatedAt)))

EncodeDependency(d) ==
    EncodeObject(
        Member("k:from", EncodeString(d.From))
        \o Member("k:to", EncodeString(d.To))
        \o Member("k:type", EncodeString(d.Type))
        \o Member("k:created_at", EncodeTime(d.CreatedAt)))

EncodeRecord(k, x) ==
    CASE k = "insights" -> EncodeInsight(x)
      [] k = "threads" -> EncodeThread(x)
      [] OTHER -> EncodeDependency(x)

(***************************************************************************)
(* encoding/json as used by json.Unmarshal: the text is first checked to   *)
(* be one well-formed JSON value, then stored into the target struct       *)
(***************************************************************************)
ParseFail == [ok |-> FALSE, t |-> "fail", v |-> <<>>, next |-> 0]
Parsed(type, value, nxt) == [ok |-> TRUE, t |-> type, v |-> value, next |-> nxt]

RECURSIVE SkipSpace(_, _)
SkipSpace(s, i) ==
    IF i <= Len(s) /\ s[i] = " " THEN SkipSpace(s, i + 1) ELSE i

\* the rest of a string literal whose opening quote has been read
RECURSIVE ParseStringBody(_, _, _)
ParseStringBody(s, i, acc) ==
    IF i > Len(s) THEN ParseFail
    ELSE IF s[i] = QUOTE THEN Parsed("str", acc, i + 1)
    ELSE IF s[i] = BACKSLASH THEN
        IF i + 1 > Len(s) THEN ParseFail
        ELSE IF s[i + 1] \in {QUOTE, BACKSLASH}
            THEN ParseStringBody(s, i + 2, Append(acc, s[i + 1]))
        ELSE IF s[i + 1] = "n" THEN ParseStringBody(s, i + 2, Append(acc, LF))
        ELSE IF s[i + 1] = "r" THEN ParseStringBody(s, i + 2, Append(acc, CR))
        ELSE ParseFail
    ELSE IF s[i] \in KeyToks \cup {LF, CR} THEN ParseFail
    ELSE ParseStringBody(s, i + 1, Append(acc, s[i]))

RECURSIVE ParseValue(_, _)
RECURSIVE ParseMembers(_, _, _)
RECURSIVE ParseElements(_, _, _)

\* the members of an object after "{" or ",": key, value, then "," or "}"
ParseMembers(s, i, acc) ==
    LET k == SkipSpace(s, i) IN
    IF k > Len(s) \/ s[k] \notin KeyToks THEN ParseFail
    ELSE LET r == ParseValue(s, k + 1) IN
         IF ~r.ok THEN ParseFail
         ELSE LET j == SkipSpace(s, r.next)
                  acc2 == Append(acc, [key |-> s[k], val |-> [t |-> r.t, v |-> r.v]])
              IN IF j > Len(s) THEN ParseFail
                 ELSE IF s[j] = "}" THEN Parsed("obj", acc2, j + 1)
                 ELSE IF s[j] = "," THEN ParseMembers(s, j + 1, acc2)
                 ELSE ParseFail

\* the elements of an array after "[" or ",": value, then "," or "]"
ParseElements(s, i, acc) ==
    LET r == ParseValue(s, i) IN
    IF ~r.ok THEN ParseFail
    ELSE LET j == SkipSpace(s, r.next)
             acc2 == Append(acc, [t |-> r.t, v |-> r.v])
         IN IF j > Len(s) THEN ParseFail
            ELSE IF s[j] = "]" THEN Parsed("arr", acc2, j + 1)
            ELSE IF s[j] = "," THEN ParseElements(s, j + 1, acc2)
            ELSE ParseFail

ParseValue(s, i) ==
    LET k == SkipSpace(s, i) IN
    IF k > Len(s) THEN ParseFail
    ELSE IF s[k] = QUOTE THEN ParseStringBody(s, k + 1, <<>>)
    ELSE IF s[k] = "null" THEN Parsed("null", <<>>, k + 1)
    ELSE IF s[k] \in NumToks THEN Parsed("num", NumOf(s[k]), k + 1)
    ELSE IF s[k] = "{" THEN
        LET j == SkipSpace(s, k + 1) IN
        IF j <= Len(s) /\ s[j] = "}" THEN Parsed("obj", <<>>, j + 1)
        ELSE ParseMembers(s, k + 1, <<>>)
    ELSE IF s[k] = "[" THEN
        LET j == SkipSpace(s, k + 1) IN
        IF j <= Len(s) /\ s[j] = "]" THEN Parsed("arr", <<>>, j + 1)
        ELSE ParseElements(s, k + 1, <<>>)
    ELSE ParseFail

\* the whole text is one JSON value, surrounded by white space only
ParseJSON(s) ==
    LET r == ParseValue(s, 1) IN
    IF r.ok /\ SkipSpace(s, r.next) = Len(s) + 1 THEN r ELSE ParseFail

\* storing a parsed value into a struct field; st is [val: the struct, err: a
\* type error was met].  null leaves a string, number, time or struct field
\* alone and makes a slice nil; a value of the wrong type is an error.
StoreString(st, f, x) ==
    IF x.t = "str" THEN [st EXCEPT !.val[f] = x.v]
    ELSE IF x.t = "null" THEN st
    ELSE [st EXCEPT !.err = TRUE]

StoreNumber(st, f, x) ==
    IF x.t = "num" THEN [st EXCEPT !.val[f] = x.v]
    ELSE IF x.t = "null" THEN st
    ELSE [st EXCEPT !.err = TRUE]

\* time.Time.UnmarshalJSON: a string holding an RFC 3339 text
StoreTime(st, f, x) ==
    IF x.t = "str" THEN
        IF Len(x.v) = 2 /\ x.v[1] = "T" /\ x.v[2] \in NumToks
        THEN [st EXCEPT !.val[f] = NumOf(x.v[2])]
        ELSE [st EXCEPT !.err = TRUE]
    ELSE IF x.t = "null" THEN st
    ELSE [st EXCEPT !.err = TRUE]

StoreStringSlice(st, f, x) ==
    IF x.t = "arr" THEN
        [val |-> [st.val EXCEPT ![f] =
                    MkSlice([i \in 1..Len(x.v) |->
                                IF x.v[i].t = "str" THEN x.v[i].v ELSE <<>>])],
         err |-> st.err \/ \E i \in 1..Len(x.v) : x.v[i].t \notin {"str", "null"}]
    ELSE IF x.t = "null" THEN [st EXCEPT !.val[f] = NilSlice]
    ELSE [st EXCEPT !.err = TRUE]

StoreSourceField(st, m) ==
    CASE m.key = "k:type" -> StoreString(st, "Type", m.val)
      [] m.key = "k:ref" -> StoreString(st, "Ref", m.val)
      [] m.key = "k:participants" -> StoreStringSlice(st, "Participants", m.val)
      [] OTHER -> st

RECURSIVE StoreSourceMembers(_, _)
StoreSourceMembers(st, ms) ==
    IF ms = <<>> THEN st
    ELSE StoreSourceMembers(StoreSourceField(st, Head(ms)), Tail(ms))

StoreSource(st, f, x) ==
    IF x.t = "obj" THEN
        LET r == StoreSourceMembers([val |-> st.val[f], err |-> st.err], x.v)
        IN [val |-> [st.val EXCEPT ![f] = r.val], err |-> r.err]
    ELSE IF x.t = "null" THEN st
    ELSE [st EXCEPT !.err = TRUE]

StoreInsightField(st, m) ==
    CASE m.key = "k:id" -> StoreString(st, "ID", m.val)
      [] m.key = "k:timestamp" -> StoreTime(st, "Timestamp", m.val)
      [] m.key = "k:content" -> StoreString(st, "Content", m.val)
      [] m.key = "k:summary" -> StoreString(st, "Summary", m.val)
      [] m.key = "k:type" -> StoreString(st, "Type", m.val)
      [] m.key = "k:confidence" -> StoreNumber(st, "Confidence", m.val)
      [] m.key = "k:source" -> StoreSource(st, "Source", m.val)
      [] m.key = "k:thread_id" -> StoreString(st, "ThreadID", m.val)
      [] m.key = "k:author_id" -> StoreString(st, "AuthorID", m.val)
      [] m.key = "k:endorsed_by" -> StoreStringSlice(st, "EndorsedBy", m.val)
      [] m.key = "k:labels" -> StoreStringSlice(st, "Tags", m.val)
      [] m.key = "k:created_by" -> StoreString(st, "CreatedBy", m.val)
      [] m.key = "k:created_at" -> StoreTime(st, "CreatedAt", m.val)
      [] OTHER -> st

StoreThreadField(st, m) ==
    CASE m.key = "k:id" -> StoreString(st, "ID", m.val)
      [] m.key = "k:title" -> StoreString(st, "Title", m.val)
      [] m.key = "k:status" -> StoreString(st, "Status", m.val)
      [] m.key = "k:current_understanding" -> StoreString(st, "CurrentUnderstanding", m.val)
      [] m.key = "k:created_at" -> StoreTime(st, "CreatedAt", m.val)
      [] m.key = "k:updated_at" -> StoreTime(st, "UpdatedAt", m.val)
      [] OTHER -> st

StoreDependencyField(st, m) ==
    CASE m.key = "k:from" -> StoreString(st, "From", m.val)
      [] m.key = "k:to" -> StoreString(st, "To", m.val)
      [] m.key = "k:type" -> StoreString(st, "Type", m.val)
      [] m.key = "k:created_at" -> StoreTime(st, "CreatedAt", m.val)
      [] OTHER -> st

StoreField(k, st, m) ==
    CASE k = "insights" -> StoreInsightField(st, m)
      [] k = "threads" -> StoreThreadField(st, m)
      [] OTHER -> StoreDependencyField(st, m)

RECURSIVE StoreMembers(_, _, _)
StoreMembers(k, st, ms) ==
    IF ms = <<>> THEN st
    ELSE StoreMembers(k, StoreField(k, st, Head(ms)), Tail(ms))

\* the factory of readJSONL: a pointer to a zero struct
Factory(k) ==
    CASE k = "insights" -> ZeroInsight
      [] k = "threads" -> ZeroThread
      [] OTHER -> ZeroDependency

\* json.Unmarshal(line, item): [err, val]
Unmarshal(k, line) ==
    LET r == ParseJSON(line) IN
    IF ~r.ok THEN [err |-> TRUE, val |-> Factory(k)]
    ELSE IF r.t = "obj" THEN StoreMembers(k, [val |-> Factory(k), err |-> FALSE], r.v)
    ELSE IF r.t = "null" THEN [val |-> Factory(k), err |-> FALSE]
    ELSE [err |-> TRUE, val |-> Factory(k)]

(***************************************************************************)
(* internal/jsonl: writeJSONL and readJSONL                                *)
(***************************************************************************)
\* writeJSONL: Encoder.Encode writes each item followed by a line feed
RECURSIVE writeJSONL(_, _)
writeJSONL(k, items) ==
    IF items = <<>> THEN <<>>
    ELSE EncodeRecord(k, Head(items)) \o <<LF>> \o writeJSONL(k, Tail(items))

\* bufio.ScanLines: the lines of the data, without their line feeds; data
\* after the last line feed is a line of its own unless it is empty
SplitLines(data) ==
    LET feeds == {i \in 1..Len(data) : data[i] = LF}
        n == Cardinality(feeds)
        \* position of the k-th line feed, 0 for k = 0
        feed(k) == IF k = 0 THEN 0
                   ELSE CHOOSE p \in feeds : Cardinality({q \in feeds : q < p}) = k - 1
        terminated == [k \in 1..n |-> SubSeq(data, feed(k - 1) + 1, feed(k) - 1)]
        rest == SubSeq(data, feed(n) + 1, Len(data))
    IN IF rest = <<>> THEN terminated ELSE Append(terminated, rest)

\* bufio.dropCR: a trailing carriage return is not part of the line
DropCR(line) ==
    IF Len(line) > 0 /\ line[Len(line)] = CR THEN SubSeq(line, 1, Len(line) - 1)
    ELSE line

\* the outcome of an import: err is "none", "decode" (with the line number) or "read"
ImportResult(e, n, xs) == [err |-> e, line |-> n, items |-> xs]

\* a scan loop that hands every line to the decoder
SkipLine_Never(line) == FALSE

\* the test for an empty line, which the scan loop passes over
SkipLine(line) == Len(line) = 0

\* the scan loop of readJSONL over the lines not yet read; lineNum lines were
\* read before and items were decoded from them
RECURSIVE ScanLoop(_, _, _, _)
ScanLoop(k, lines, lineNum, items) ==
    IF lines = <<>> THEN ImportResult("none", 0, items)
    ELSE IF ByteLen(Head(lines)) >= MaxScanTokenSize
        THEN ImportResult("read", 0, <<>>)       \* scanner.Err(): token too long
    ELSE LET line == DropCR(Head(lines)) IN
         IF SkipLine(line) THEN ScanLoop(k, Tail(lines), lineNum + 1, items)
         ELSE LET u == Unmarshal(k, line) IN
              IF u.err THEN ImportResult("decode", lineNum + 1, <<>>)
              ELSE ScanLoop(k, Tail(lines), lineNum + 1, Append(items, u.val))

\* readJSONL counting the lines from zero
readJSONL_ZeroBased(k, data) == ScanLoop(k, SplitLines(data), 0 - 1, <<>>)

readJSONL(k, data) == ScanLoop(k, SplitLines(data), 0, <<>>)

(***************************************************************************)
(* internal/store: the tables and the statements run on them.  A table is  *)
(* the set of its rows; a nullable column holds SqlNull or a text.         *)
(***************************************************************************)
SqlNull == [null |-> TRUE, s |-> <<>>]
SqlText(x) == [null |-> FALSE, s |-> x]

\* the statement bound to the field as it is, an empty string included
Nullable_AsIs(x) == SqlText(x)

\* the "handle nullable fields" step of CreateInsight and UpdateInsight
Nullable(x) == IF x = <<>> THEN SqlNull ELSE SqlText(x)

\* the values CreateInsight and UpdateInsight bind to the statement
InsightRow(insight) ==
    [id |-> insight.ID,
     timestamp |-> insight.Timestamp,
     content |-> insight.Content,
     summary |-> insight.Summary,
     type |-> insight.Type,
     confidence |-> insight.Confidence,
     source_type |-> insight.Source.Type,
     source_ref |-> insight.Source.Ref,
     source_participants |-> EncodeStringSlice(insight.Source.Participants),
     thread_id |-> Nullable(insight.ThreadID),
     author_id |-> Nullable(insight.AuthorID),
     endorsed_by |-> EncodeStringSlice(insight.EndorsedBy),
     tags |-> EncodeStringSlice(insight.Tags),
     created_by |-> insight.CreatedBy,
     created_at |-> insight.CreatedAt]

\* json.Unmarshal of a column text into a []string that is cur before the call
UnmarshalStringSlice(text, cur) ==
    LET r == ParseJSON(text) IN
    IF ~r.ok THEN [err |-> TRUE, val |-> cur]
    ELSE LET st == StoreStringSlice([val |-> [x |-> cur], err |-> FALSE], "x",
                                    [t |-> r.t, v |-> r.v])
         IN [err |-> st.err, val |-> st.val.x]

\* a list column is deserialized when it is not empty
ScanSlice(text) == IF text # <<>> THEN UnmarshalStringSlice(text, NilSlice).val ELSE NilSlice

\* rows.Scan and the steps after it in GetInsight and ListInsights
ScanInsight(row) ==
    [ID |-> row.id,
     Timestamp |-> row.timestamp,
     Content |-> row.content,
     Summary |-> row.summary,
     Type |-> row.type,
     Confidence |-> row.confidence,
     Source |-> InsightSource(row.source_type, row.source_ref,
                              ScanSlice(row.source_participants)),
     ThreadID |-> IF row.thread_id.null THEN <<>> ELSE row.thread_id.s,
     AuthorID |-> IF row.author_id.null THEN <<>> ELSE row.author_id.s,
     EndorsedBy |-> ScanSlice(row.endorsed_by),
     Tags |-> ScanSlice(row.tags),
     CreatedBy |-> row.created_by,
     CreatedAt |-> row.created_at]

ThreadRow(thread) ==
    [id |-> thread.ID, title |-> thread.Title, status |-> thread.Status,
     current_understanding |-> thread.CurrentUnderstanding,
     created_at |-> thread.CreatedAt, updated_at |-> thread.UpdatedAt]

ScanThread(row) ==
    [ID |-> row.id, Title |-> row.title, Status |-> row.status,
     CurrentUnderstanding |-> row.current_understanding,
     CreatedAt |-> row.created_at, UpdatedAt |-> row.updated_at]

DependencyRow(dep) ==
    [from_id |-> dep.From, to_id |-> dep.To, type |-> dep.Type, created_at |-> dep.CreatedAt]

ScanDependency(row) ==
    [From |-> row.from_id, To |-> row.to_id, Type |-> row.type, CreatedAt |-> row.created_at]

\* the constraints of the schema (migrateInitialSchema), in the order SQLite
\* reports them: the primary key when the row is written, the foreign key at
\* the end of the statement (PRAGMA foreign_keys = ON)
InsightKeyTaken(rows, id) == \E r \in rows : r.id = id
\* the foreign key not enforced (PRAGMA foreign_keys left off)
ThreadRefBroken_NotEnforced(trows, row) == FALSE

ThreadRefBroken(trows, row) ==
    ~row.thread_id.null /\ ~\E t \in trows : t.id = row.thread_id.s
ThreadKeyTaken(rows, id) == \E r \in rows : r.id = id
DependencyKeyTaken(rows, row) ==
    \E r \in rows : r.from_id = row.from_id /\ r.to_id = row.to_id /\ r.type = row.type

\* the outcome of a store operation
Outcome(o, i, e, v) == [op |-> o, id |-> i, err |-> e, val |-> v]
NoLast == Outcome("none", <<>>, "none", <<>>)
NoTrace == [pc |-> "idle", start |-> <<>>, current |-> <<>>, visited |-> {}, chain |-> <<>>]

\* CreateInsightErr on a table without the PRIMARY KEY constraint on id
CreateInsightErr_NoPrimaryKey(irows, trows, insight) ==
    IF ThreadRefBroken(trows, InsightRow(insight)) THEN "foreign_key" ELSE "none"

\* the error CreateInsight returns on a store with the given tables
CreateInsightErr(irows, trows, insight) ==
    IF InsightKeyTaken(irows, insight.ID) THEN "unique"
    ELSE IF ThreadRefBroken(trows, InsightRow(insight)) THEN "foreign_key"
    ELSE "none"

CreateInsight(insight) ==
    LET e == CreateInsightErr(insights, threads, insight) IN
    /\ insights' = IF e = "none" THEN insights \cup {InsightRow(insight)} ELSE insights
    /\ last' = Outcome("CreateInsight", insight.ID, e, <<>>)
    /\ UNCHANGED <<threads, dependencies>>
    /\ UNCHANGED <<tr, codecVars, sysVars>>

GetInsightResult(irows, id) ==
    IF \E r \in irows : r.id = id
    THEN Outcome("GetInsight", id, "none", ScanInsight(CHOOSE r \in irows : r.id = id))
    ELSE Outcome("GetInsight", id, "not_found", <<>>)

GetInsight(id) ==
    /\ last' = GetInsightResult(insights, id)
    /\ UNCHANGED <<insights, threads, dependencies>>
    /\ UNCHANGED <<tr, codecVars, sysVars>>

\* UpdateInsightErr without the test of the number of rows affected
UpdateInsightErr_NoRowsCheck(irows, trows, insight) ==
    IF ThreadRefBroken(trows, InsightRow(insight)) THEN "foreign_key" ELSE "none"

UpdateInsightErr(irows, trows, insight) ==
    IF ~\E r \in irows : r.id = insight.ID THEN "not_found"
    ELSE IF ThreadRefBroken(trows, InsightRow(insight)) THEN "foreign_key"
    ELSE "none"

UpdateInsight(insight) ==
    LET e == UpdateInsightErr(insights, threads, insight) IN
    /\ insights' = IF e = "none"
                   THEN {r \in insights : r.id # insight.ID} \cup {InsightRow(insight)}
                   ELSE insights
    /\ last' = Outcome("UpdateInsight", insight.ID, e, <<>>)
    /\ UNCHANGED <<threads, dependencies>>
    /\ UNCHANGED <<tr, codecVars, sysVars>>

DeleteInsightErr(irows, id) ==
    IF \E r \in irows : r.id = id THEN "none" ELSE "not_found"

\* a delete that takes the edges of the insight with it (ON DELETE CASCADE)
DeleteInsight_Cascade(id) ==
    /\ insights' = {r \in insights : r.id # id}
    /\ dependencies' = IF DeleteInsightErr(insights, id) = "none"
                       THEN {r \in dependencies : r.from_id # id /\ r.to_id # id}
                       ELSE dependencies
    /\ last' = Outcome("DeleteInsight", id, DeleteInsightErr(insights, id), <<>>)
    /\ UNCHANGED <<threads, tr, codecVars, sysVars>>

DeleteInsight(id) ==
    /\ insights' = {r \in insights : r.id # id}
    /\ last' = Outcome("DeleteInsight", id, DeleteInsightErr(insights, id), <<>>)
    /\ UNCHANGED <<threads, dependencies>>
    /\ UNCHANGED <<tr, codecVars, sysVars>>

CreateThreadErr(trows, thread) ==
    IF ThreadKeyTaken(trows, thread.ID) THEN "unique" ELSE "none"

CreateThread(thread) ==
    LET e == CreateThreadErr(threads, thread) IN
    /\ threads' = IF e = "none" THEN threads \cup {ThreadRow(thread)} ELSE threads
    /\ last' = Outcome("CreateThread", thread.ID, e, <<>>)
    /\ UNCHANGED <<insights, dependencies>>
    /\ UNCHANGED <<tr, codecVars, sysVars>>

GetThreadResult(trows, id) ==
    IF \E r \in trows : r.id = id
    THEN Outcome("GetThread", id, "none", ScanThread(CHOOSE r \in trows : r.id = id))
    ELSE Outcome("GetThread", id, "not_found", <<>>)

GetThread(id) ==
    /\ last' = GetThreadResult(threads, id)
    /\ UNCHANGED <<insights, threads, dependencies>>
    /\ UNCHANGED <<tr, codecVars, sysVars>>

UpdateThreadErr(trows, thread) ==
    IF \E r \in trows : r.id = thread.ID THEN "none" ELSE "not_found"

\* UPDATE threads SET title, status, current_understanding, updated_at
UpdateThread(thread) ==
    /\ threads' = {IF r.id = thread.ID
                   THEN [r EXCEPT !.title = thread.Title, !.status = thread.Status,
                                  !.current_understanding = thread.CurrentUnderstanding,
                                  !.updated_at = thread.UpdatedAt]
                   ELSE r : r \in threads}
    /\ last' = Outcome("UpdateThread", thread.ID, UpdateThreadErr(threads, thread), <<>>)
    /\ UNCHANGED <<insights, dependencies>>
    /\ UNCHANGED <<tr, codecVars, sysVars>>

\* AddDependencyErr on a table whose primary key leaves out the type
AddDependencyErr_NoPrimaryKey(drows, dep) == "none"

AddDependencyErr(drows, dep) ==
    IF DependencyKeyTaken(drows, DependencyRow(dep)) THEN "unique" ELSE "none"

AddDependency(dep) ==
    LET e == AddDependencyErr(dependencies, dep) IN
    /\ dependencies' = IF e = "none" THEN dependencies \cup {DependencyRow(dep)}
                       ELSE dependencies
    /\ last' = Outcome("AddDependency", <<dep.From, dep.To, dep.Type>>, e, dep)
    /\ UNCHANGED <<insights, threads>>
    /\ UNCHANGED <<tr, codecVars, sysVars>>

\* the WHERE clause with a strict comparison of the timestamp
ListInsightsWhere_Strict(row, threadID, insightType, since) ==
    /\ (threadID # <<>> => (~row.thread_id.null /\ row.thread_id.s = threadID))
    /\ (insightType # <<>> => row.type = insightType)
    /\ (since # 0 => row.timestamp > since)

\* the WHERE clause ListInsights builds from its three filters
ListInsightsWhere(row, threadID, insightType, since) ==
    /\ (threadID # <<>> => (~row.thread_id.null /\ row.thread_id.s = threadID))
    /\ (insightType # <<>> => row.type = insightType)
    /\ (since # 0 => row.timestamp >= since)

\* the orders in which a query may return rows under ORDER BY timestamp DESC
\* (SQL leaves the order of rows with equal keys open)
OrderByTimestampDesc(rows) ==
    {q \in [1..Cardinality(rows) -> rows] :
        /\ \A i, j \in 1..Cardinality(rows) : i # j => q[i] # q[j]
        /\ \A i, j \in 1..Cardinality(rows) : i < j => q[i].timestamp >= q[j].timestamp}

\* ListInsights: the results the call may return
ListInsights(threadID, insightType, since) ==
    LET rows == {r \in insights : ListInsightsWhere(r, threadID, insightType, since)}
    IN {[i \in 1..Len(q) |-> ScanInsight(q[i])] : q \in OrderByTimestampDesc(rows)}

\* the orders in which a query may return rows under ORDER BY created_at
OrderByCreatedAt(rows) ==
    {q \in [1..Cardinality(rows) -> rows] :
        /\ \A i, j \in 1..Cardinality(rows) : i # j => q[i] # q[j]
        /\ \A i, j \in 1..Cardinality(rows) : i < j => q[i].created_at <= q[j].created_at}

\* GetDependencies: the results the call may return
GetDependencies(fromID) ==
    {[i \in 1..Len(q) |-> ScanDependency(q[i])] :
        q \in OrderByCreatedAt({r \in dependencies : r.from_id = fromID})}

\* GetDependents: the results the call may return
GetDependents(toID) ==
    {[i \in 1..Len(q) |-> ScanDependency(q[i])] :
        q \in OrderByCreatedAt({r \in dependencies : r.to_id = toID})}

(***************************************************************************)
(* cmd/bdc/trace.go: traceChain, one action per iteration of its loop      *)
(***************************************************************************)
\* a chain item that does not record the relation
chainItem_NoRelation(id, relation) == [insightID |-> id, relationFromPrev |-> <<>>]

chainItem(id, relation) == [insightID |-> id, relationFromPrev |-> relation]

Followed(dep) == dep.Type = <<"builds-on">> \/ dep.Type = <<"supersedes">>

\* the scan of deps without the break: the last matching edge is kept
FirstFollowed_NoBreak(deps) ==
    IF \E i \in 1..Len(deps) : Followed(deps[i])
    THEN LET i == CHOOSE k \in 1..Len(deps) :
                    Followed(deps[k]) /\ \A j \in (k + 1)..Len(deps) : ~Followed(deps[j])
         IN [prevID |-> deps[i].From, relation |-> deps[i].Type]
    ELSE [prevID |-> <<>>, relation |-> <<>>]

\* the first builds-on or supersedes edge of deps, as [prevID, relation];
\* both empty when there is none
FirstFollowed(deps) ==
    IF \E i \in 1..Len(deps) : Followed(deps[i])
    THEN LET i == CHOOSE k \in 1..Len(deps) :
                    Followed(deps[k]) /\ \A j \in 1..(k - 1) : ~Followed(deps[j])
         IN [prevID |-> deps[i].From, relation |-> deps[i].Type]
    ELSE [prevID |-> <<>>, relation |-> <<>>]

\* the loop condition without the test of the visited set
TraceContinues_NoVisited(t) == t.current # <<>>

\* the loop condition of traceChain
TraceContinues(t) == t.current # <<>> /\ t.current \notin t.visited

\* traceChain is called: chain and visited are empty, current is startID
StartTrace(startID) ==
    /\ tr.pc = "idle"
    /\ tr' = [pc |-> "loop", start |-> startID, current |-> startID,
              visited |-> {}, chain |-> <<>>]
    /\ UNCHANGED <<insights, threads, dependencies, last, codecVars, sysVars>>

\* one test of the loop condition and, when it holds, one run of the body
TraceStep ==
    /\ tr.pc = "loop"
    /\ IF TraceContinues(tr)
       THEN \E deps \in GetDependents(tr.current) :
                LET f == FirstFollowed(deps) IN
                /\ tr' = [tr EXCEPT !.visited = @ \cup {tr.current},
                                    !.chain = <<chainItem(tr.current, f.relation)>> \o @,
                                    !.current = f.prevID]
                /\ last' = Outcome("GetDependents", tr.current, "none", deps)
       ELSE /\ tr' = [tr EXCEPT !.pc = "done"]
            /\ UNCHANGED last
    /\ UNCHANGED <<insights, threads, dependencies, codecVars, sysVars>>

\* the caller has used the chain traceChain returned
EndTrace ==
    /\ tr.pc = "done"
    /\ tr' = NoTrace
    /\ last' = NoLast
    /\ UNCHANGED <<insights, threads, dependencies, codecVars, sysVars>>

(***************************************************************************)
(* Inputs of the codec                                                     *)
(***************************************************************************)
\* an insight with every optional field populated; its text holds a line
\* break, a quote and a backslash followed by n
FullInsight ==
    [ID |-> <<"ins-1">>, Timestamp |-> 1, Content |-> <<"a", LF, QUOTE, BACKSLASH, "n">>,
     Summary |-> <<"a">>, Type |-> <<"discovery">>, Confidence |-> 1,
     Source |-> InsightSource(<<"human">>, <<"ref">>, MkSlice(<< <<"alice">> >>)),
     ThreadID |-> <<"thr-1">>, AuthorID |-> <<"alice">>,
     EndorsedBy |-> MkSlice(<< <<"bob">>, <<"alice">> >>),
     Tags |-> MkSlice(<< <<"a", LF>> >>), CreatedBy |-> <<"alice">>, CreatedAt |-> MaxTime]

\* an insight with every optional field left empty
BareInsight ==
    [ZeroInsight EXCEPT !.ID = <<"ins-2">>, !.Content = <<"a">>,
                        !.Type = <<"question">>, !.Source.Type = <<"human">>]

InsightSamples ==
    {FullInsight, BareInsight,
     [BareInsight EXCEPT !.Tags = EmptySlice, !.EndorsedBy = EmptySlice,
                         !.Source.Participants = EmptySlice],
     [BareInsight EXCEPT !.Content = <<"a", RUN>>],
     [BareInsight EXCEPT !.Content = <<>>, !.Summary = <<LF, LF>>]}

FullThread ==
    [ID |-> <<"thr-1">>, Title |-> <<"a", QUOTE>>, Status |-> <<"active">>,
     CurrentUnderstanding |-> <<"a", LF, "a">>, CreatedAt |-> 1, UpdatedAt |-> MaxTime]

BareThread ==
    [ZeroThread EXCEPT !.ID = <<"thr-2">>, !.Title = <<"a">>, !.Status = <<"concluded">>]

ThreadSamples == {FullThread, BareThread, [BareThread EXCEPT !.Title = <<RUN>>]}

DependencySamples ==
    {[From |-> <<"ins-1">>, To |-> <<"ins-2">>, Type |-> <<"builds-on">>, CreatedAt |-> 1],
     [From |-> <<"ins-2">>, To |-> <<"bead-1">>, Type |-> <<"spawns">>, CreatedAt |-> MaxTime],
     [From |-> <<"a", LF>>, To |-> <<>>, Type |-> <<>>, CreatedAt |-> 0]}

Samples(k) ==
    CASE k = "insights" -> InsightSamples
      [] k = "threads" -> ThreadSamples
      [] OTHER -> DependencySamples

BareSample(k) ==
    CASE k = "insights" -> BareInsight
      [] k = "threads" -> BareThread
      [] OTHER -> [From |-> <<"ins-1">>, To |-> <<"ins-2">>, Type |-> <<"builds-on">>,
                   CreatedAt |-> 1]

Kinds == {"insights", "threads", "deps"}

\* all sequences over S of length at most n
RECURSIVE SeqsUpTo(_, _)
SeqsUpTo(S, n) ==
    IF n = 0 THEN {<<>>}
    ELSE LET shorter == SeqsUpTo(S, n - 1)
         IN shorter \cup {Append(q, x) : q \in shorter, x \in S}

\* lines a log file may hold after a hand edit or a merge: a well-formed
\* record, a record with white space, an unknown key and an explicit empty
\* list, and lines that do not decode
LineSamples(k) ==
    IF k = "insights" THEN
        {EncodeRecord(k, BareSample(k)),
         <<"{", " ", "k:id", " ", QUOTE, "x", QUOTE, ",", "k:labels", "[", "]", ",",
           "k:unknown", "null", "}", " ">>,
         <<"{", "k:id", QUOTE, "x", QUOTE, " ", "a", "}">>,     \* text after a value
         <<"{", "k:created_at", NumTok(1), "}">>,                 \* a number for a time
         <<" ">>,                                                 \* white space only
         <<"{", "k:id", QUOTE, RUN, QUOTE, "}">>}                 \* well-formed but long
    ELSE
        {EncodeRecord(k, BareSample(k)),
         <<"{", "k:id", QUOTE, "x">>}                             \* cut off

RECURSIVE JoinLines(_)
JoinLines(lines) ==
    IF lines = <<>> THEN <<>>
    ELSE IF Len(lines) = 1 THEN Head(lines)
    ELSE Head(lines) \o <<LF>> \o JoinLines(Tail(lines))

\* positions of a file where a line starts or the file ends
LineStarts(data) == {1, Len(data) + 1} \cup {i + 1 : i \in {j \in 1..Len(data) : data[j] = LF}}

InsertAt(data, p, ins) == SubSeq(data, 1, p - 1) \o ins \o SubSeq(data, p, Len(data))

(***************************************************************************)
(* The codec as a state machine: a log file that is exported, edited from  *)
(* outside (a merge, a hand edit) and imported                             *)
(***************************************************************************)
NoImport == [done |-> FALSE, err |-> "none", line |-> 0, items |-> <<>>]
NoExport == [set |-> FALSE, items |-> <<>>]

(***************************************************************************)
(* internal/store migrations and NewStore.  The schema is the set of the   *)
(* objects sqlite_master and pragma_table_info list; a row of an older     *)
(* schema holds the column default in a column added later, so ALTER TABLE *)
(* changes the schema and no row.                                          *)
(***************************************************************************)
Create(obj) == [op |-> "create", obj |-> obj]      \* CREATE ... IF NOT EXISTS
ColumnCheck(obj) == [op |-> "check", obj |-> obj]  \* return nil when the column exists
AddColumn(obj) == [op |-> "alter", obj |-> obj]    \* ALTER TABLE ... ADD COLUMN

migrateInitialSchema ==
    <<Create("table threads"), Create("table insights"), Create("table dependencies"),
      Create("index idx_insights_thread_id"), Create("index idx_insights_type"),
      Create("index idx_insights_timestamp"), Create("index idx_insights_created_at"),
      Create("index idx_threads_status"), Create("index idx_dependencies_from"),
      Create("index idx_dependencies_to"), Create("table insights_fts"),
      Create("trigger insights_fts_insert"), Create("trigger insights_fts_delete"),
      Create("trigger insights_fts_update")>>

\* the migration without the test for the column
migrateInsightsAuthorID_NoCheck ==
    <<AddColumn("column insights.author_id"), Create("index idx_insights_author_id")>>

migrateInsightsAuthorID ==
    <<ColumnCheck("column insights.author_id"), AddColumn("column insights.author_id"),
      Create("index idx_insights_author_id")>>

migrateInsightsEndorsedBy ==
    <<ColumnCheck("column insights.endorsed_by"), AddColumn("column insights.endorsed_by")>>

migrateConfigTable == <<Create("table config")>>

migrationsList ==
    <<[Name |-> "001_initial_schema", Func |-> migrateInitialSchema],
      [Name |-> "002_insights_author_id", Func |-> migrateInsightsAuthorID],
      [Name |-> "003_insights_endorsed_by", Func |-> migrateInsightsEndorsedBy],
      [Name |-> "004_config_table", Func |-> migrateConfigTable]>>

\* every object the four migrations create
FullSchema ==
    UNION {{migrationsList[m].Func[i].obj : i \in 1..Len(migrationsList[m].Func)} :
             m \in 1..Len(migrationsList)}

\* the outcome of one statement on a schema: the schema after it, whether the
\* migration returns nil at once, and the error of the statement
Exec(schema, stmt) ==
    CASE stmt.op = "create" -> [schema |-> schema \cup {stmt.obj}, ret |-> FALSE, err |-> "none"]
      [] stmt.op = "check" -> [schema |-> schema, ret |-> stmt.obj \in schema, err |-> "none"]
      [] OTHER -> IF stmt.obj \in schema
                  THEN [schema |-> schema, ret |-> FALSE, err |-> "duplicate column"]
                  ELSE [schema |-> schema \cup {stmt.obj}, ret |-> FALSE, err |-> "none"]

\* no NewStore call is running and no handle is open on a database without schema
NoDb == [schema |-> {}, handle |-> "none", pc |-> "idle", m |-> 0, i |-> 0,
         started |-> <<>>, result |-> "none", err |-> "none"]

\* the database after NewStore returned a Store on it
OpenedDb == [NoDb EXCEPT !.schema = FullSchema, !.handle = "open", !.result = "store",
                         !.started = <<1, 2, 3, 4>>]

\* NewStore is called: sql.Open hands out a handle
NewStore ==
    /\ db.pc = "idle" /\ db.handle # "open"
    /\ db' = [db EXCEPT !.handle = "open", !.pc = "pragma", !.m = 0, !.i = 0,
                        !.started = <<>>, !.result = "none", !.err = "none"]
    /\ UNCHANGED <<storeVars, codecVars, config, run>>

\* NewStore returning the error without db.Close()
NewStoreFails_NoClose(d, e) ==
    [d EXCEPT !.pc = "idle", !.result = "error", !.err = e]

\* NewStore returns the error of a statement after closing the handle
NewStoreFails(d, e) ==
    [d EXCEPT !.handle = "closed", !.pc = "idle", !.result = "error", !.err = e]

\* the control of RunMigrations after statement i of migration m returned:
\* the next statement, the next migration, or the return of NewStore
Advance(d, ret) ==
    IF ~ret /\ d.i < Len(migrationsList[d.m].Func) THEN [d EXCEPT !.i = d.i + 1]
    ELSE IF d.m < Len(migrationsList)
         THEN [d EXCEPT !.m = d.m + 1, !.i = 1, !.started = Append(@, d.m + 1)]
         ELSE [d EXCEPT !.pc = "idle", !.result = "store"]

\* PRAGMA foreign_keys = ON; ioError says whether the database refuses it
EnableForeignKeys(ioError) ==
    /\ db.pc = "pragma"
    /\ db' = IF ioError THEN NewStoreFails(db, "io")
             ELSE [db EXCEPT !.pc = "migrate", !.m = 1, !.i = 1, !.started = <<1>>]
    /\ last' = IF db'.pc = "idle" THEN Outcome("NewStore", <<>>, db'.err, <<>>) ELSE last
    /\ UNCHANGED <<insights, threads, dependencies, tr, codecVars, config, run>>

\* RunMigrations executes the next statement
RunMigrations(ioError) ==
    /\ db.pc = "migrate"
    /\ LET r == Exec(db.schema, migrationsList[db.m].Func[db.i]) IN
       db' = IF ioError THEN NewStoreFails(db, "io")
             ELSE IF r.err # "none" THEN NewStoreFails(db, r.err)
             ELSE Advance([db EXCEPT !.schema = r.schema], r.ret)
    /\ last' = IF db'.pc = "idle" THEN Outcome("NewStore", <<>>, db'.err, <<>>) ELSE last
    /\ UNCHANGED <<insights, threads, dependencies, tr, codecVars, config, run>>

\* Store.Close
Close ==
    /\ db.pc = "idle" /\ db.handle = "open"
    /\ db' = [db EXCEPT !.handle = "closed", !.result = "none"]
    /\ UNCHANGED <<storeVars, codecVars, config, run>>

\* no command is running
NoRun == [pc |-> "idle"]

\* a store that NewStore has just returned on a new database
InitStore ==
    /\ insights = {}
    /\ threads = {}
    /\ dependencies = {}
    /\ last = NoLast
    /\ tr = NoTrace
    /\ config = {}
    /\ db = OpenedDb
    /\ run = NoRun

InitCodec ==
    /\ kind = "insights"
    /\ exported = NoExport
    /\ file = <<>>
    /\ orig = <<>>
    /\ imported = NoImport
    /\ blanks = 0

Init == InitStore /\ InitCodec

\* no log file has been written yet.  os.Create truncates, so writing over
\* an existing file is RemoveFile followed by the write.
Fresh == exported = NoExport /\ file = <<>> /\ blanks = 0 /\ imported = NoImport

\* ExportInsights / ExportThreads / ExportDependencies
Export(k, items) ==
    /\ Fresh
    /\ kind' = k
    /\ exported' = [set |-> TRUE, items |-> items]
    /\ file' = writeJSONL(k, items)
    /\ orig' = file'
    /\ imported' = NoImport
    /\ blanks' = 0
    /\ UNCHANGED <<storeVars, sysVars>>

ExportInsights == \E items \in SeqsUpTo(InsightSamples, MaxRecords) : Export("insights", items)
ExportThreads == \E items \in SeqsUpTo(ThreadSamples, MaxRecords) : Export("threads", items)
ExportDependencies ==
    \E items \in SeqsUpTo(DependencySamples, MaxRecords) : Export("deps", items)

\* ImportInsights / ImportThreads / ImportDependencies
Import(k) ==
    /\ kind = k
    /\ imported' = [done |-> TRUE] @@ readJSONL(k, file)
    /\ UNCHANGED <<kind, exported, file, orig, blanks>>
    /\ UNCHANGED <<storeVars, sysVars>>

ImportInsights == Import("insights")
ImportThreads == Import("threads")
ImportDependencies == Import("deps")

\* the environment replaces the file (version-control merge or hand edit)
WriteFile ==
    \E k \in Kinds : \E lines \in SeqsUpTo(LineSamples(k), MaxLines), nl \in BOOLEAN :
        /\ Fresh
        /\ Len(lines) > 0
        /\ kind' = k
        /\ exported' = NoExport
        /\ file' = JoinLines(lines) \o (IF nl THEN <<LF>> ELSE <<>>)
        /\ orig' = file'
        /\ imported' = NoImport
        /\ blanks' = 0
        /\ UNCHANGED <<storeVars, sysVars>>

\* the line endings an editor adds to a file: CR LF to a file that has
\* CR LF lines, LF to one that has blank LF lines, either to any other
BlankLines(data) ==
    IF blanks = 0 THEN {<<LF>>, <<CR, LF>>}
    ELSE IF \E i \in 1..Len(data) : data[i] = CR THEN {<<CR, LF>>}
    ELSE {<<LF>>}

\* the environment inserts a blank line between two lines, before the first
\* or after the last one
InsertBlankLine ==
    /\ blanks < MaxBlanks
    /\ \E p \in LineStarts(file), b \in BlankLines(file) :
        file' = InsertAt(file, p, b)
    /\ blanks' = blanks + 1
    /\ imported' = NoImport
    /\ UNCHANGED <<kind, exported, orig>>
    /\ UNCHANGED <<storeVars, sysVars>>

\* the environment removes the log file
RemoveFile ==
    /\ ~Fresh
    /\ kind' = "insights"
    /\ exported' = NoExport
    /\ file' = <<>>
    /\ orig' = <<>>
    /\ imported' = NoImport
    /\ blanks' = 0
    /\ UNCHANGED <<storeVars, sysVars>>

NextCodec ==
    \/ RemoveFile
    \/ ExportInsights
    \/ ExportThreads
    \/ ExportDependencies
    \/ ImportInsights
    \/ ImportThreads
    \/ ImportDependencies
    \/ WriteFile
    \/ InsertBlankLine

SpecCodec == Init /\ [][NextCodec]_vars

(***************************************************************************)
(* Properties of the log codec (checked under SpecCodec)                   *)
(***************************************************************************)
\* the file is exactly what the last Export wrote
Untouched == exported.set /\ blanks = 0

\* C1: Import(Export(xs)) succeeds and returns xs: same length, same order,
\* every record equal field for field, an empty list staying distinct from
\* an absent one.
C1_RoundTrip ==
    (Untouched /\ imported.done) =>
        (imported.err = "none" /\ imported.items = exported.items)

\* the physical lines of the file and what the scan loop does with each
FileLines == SplitLines(file)
TooLong(i) == ByteLen(FileLines[i]) >= MaxScanTokenSize
Delivered(i) == \A j \in 1..i : ~TooLong(j)
IsBlank(i) == Len(DropCR(FileLines[i])) = 0
FailsToDecode(i) ==
    Delivered(i) /\ ~IsBlank(i) /\ Unmarshal(kind, DropCR(FileLines[i])).err
FailingLines == {i \in 1..Len(FileLines) : FailsToDecode(i)}

\* C7: when the decoder fails on a non-blank line (a line the scanner handed
\* to json.Unmarshal), Import returns an error and no record at all, and the
\* error names the 1-based number of the first such line, counted over all
\* physical lines including the blank ones; no failed import returns records.
C7_AllOrNothing ==
    imported.done =>
        /\ (FailingLines # {} =>
                /\ imported.err = "decode"
                /\ imported.items = <<>>
                /\ imported.line \in FailingLines
                /\ \A i \in FailingLines : imported.line <= i)
        /\ (imported.err # "none" => imported.items = <<>>)

\* witness of C7: a decode failure on the third physical line or later, after
\* a blank line was inserted and a record decoded before it
C7_Witness ==
    /\ imported.done
    /\ imported.err = "decode"
    /\ imported.line >= 3
    /\ blanks >= 1
    /\ \E i \in 1..Len(FileLines) : i < imported.line /\ IsBlank(i)
    /\ \E i \in 1..Len(FileLines) : i < imported.line /\ ~IsBlank(i)

\* C8: blank lines inserted between the records of a log file that imports
\* without error, before the first or after the last, do not change the
\* result of Import: same records, same order, no error.
C8_BlankLines ==
    LET before == readJSONL(kind, orig)
    IN before.err = "none" => readJSONL(kind, file) = before

\* witness of C8: two blank lines inserted into a file of two records, one
\* of them between the records
C8_Witness ==
    /\ blanks >= 2
    /\ readJSONL(kind, orig).err = "none"
    /\ Len(readJSONL(kind, orig).items) >= 2
    /\ \E i \in 2..(Len(FileLines) - 1) :
        IsBlank(i) /\ ~IsBlank(i - 1) /\ \E j \in (i + 1)..Len(FileLines) : ~IsBlank(j)

\* C9: Export of n records writes exactly n lines, each ended by a line feed,
\* the i-th holding the complete serialization of the i-th record (it decodes
\* on its own), with no blank line, whatever the text holds; an empty
\* collection gives an empty file, which imports as zero records.
C9_ExportLayout ==
    Untouched =>
        /\ Len(FileLines) = Len(exported.items)
        /\ Cardinality({p \in 1..Len(file) : file[p] = LF}) = Len(exported.items)
        /\ (file # <<>> => file[Len(file)] = LF)
        /\ \A i \in 1..Len(FileLines) :
            /\ FileLines[i] = EncodeRecord(kind, exported.items[i])
            /\ ~IsBlank(i)
            /\ ~Unmarshal(kind, FileLines[i]).err
        /\ (exported.items = <<>> => file = <<>>)
        /\ (exported.items = <<>> /\ imported.done =>
                imported.err = "none" /\ imported.items = <<>>)

\* witness of C9: two records exported, one with line breaks in its text
C9_Witness ==
    /\ Untouched
    /\ kind = "insights"
    /\ Len(exported.items) = 2
    /\ \E i \in 1..2 : \E p \in 1..Len(exported.items[i].Content) :
        exported.items[i].Content[p] = LF

\* witness of C9, empty collection: exported and imported
C9_WitnessEmpty == Untouched /\ exported.items = <<>> /\ imported.done

(***************************************************************************)
(* The store as a state machine: insights and threads                      *)
(***************************************************************************)
InsightIDs == {<<"ins-1">>, <<"ins-2">>}
ThreadIDs == {<<"thr-1">>, <<"thr-2">>}
InsightTypes == {<<"discovery">>, <<"question">>}
Times == 0..MaxTime

\* insights handed to CreateInsight and UpdateInsight: discoveries have every
\* optional field populated, questions have empty lists and no author
InsightInputs ==
    {[(IF y = <<"discovery">> THEN FullInsight
       ELSE [BareInsight EXCEPT !.EndorsedBy = EmptySlice, !.Tags = EmptySlice])
      EXCEPT !.ID = id, !.ThreadID = t, !.Timestamp = ts, !.Type = y] :
        id \in InsightIDs, t \in {<<>>, <<"thr-1">>}, ts \in Times, y \in InsightTypes}

ThreadInputs ==
    {[FullThread EXCEPT !.ID = id, !.Status = st,
                        !.UpdatedAt = IF st = <<"active">> THEN 1 ELSE MaxTime] :
        id \in ThreadIDs, st \in {<<"active">>, <<"concluded">>}}

NextStore ==
    \/ \E thread \in ThreadInputs : CreateThread(thread)
    \/ \E id \in ThreadIDs : GetThread(id)
    \/ \E thread \in ThreadInputs : UpdateThread(thread)
    \/ \E insight \in InsightInputs : CreateInsight(insight)
    \/ \E id \in InsightIDs : GetInsight(id)
    \/ \E insight \in InsightInputs : UpdateInsight(insight)
    \/ \E id \in InsightIDs : DeleteInsight(id)

Spec == Init /\ [][NextStore]_vars

(***************************************************************************)
(* Properties of the store (checked under Spec)                            *)
(***************************************************************************)
TablesUnchanged ==
    insights' = insights /\ threads' = threads /\ dependencies' = dependencies

\* C3: CreateInsight (CreateThread) with an identifier already in the table
\* returns an error and changes no row of any table; no two stored insights
\* and no two stored threads ever share an identifier.
C3_Uniqueness ==
    /\ [](\A r1, r2 \in insights : r1.id = r2.id => r1 = r2)
    /\ [](\A r1, r2 \in threads : r1.id = r2.id => r1 = r2)
    /\ [][(last'.op = "CreateInsight" /\ InsightKeyTaken(insights, last'.id))
            => (last'.err # "none" /\ TablesUnchanged)]_vars
    /\ [][(last'.op = "CreateThread" /\ ThreadKeyTaken(threads, last'.id))
            => (last'.err # "none" /\ TablesUnchanged)]_vars

\* witness of C3: a CreateInsight refused as a duplicate while two insights
\* and a thread are stored
C3_Witness ==
    /\ last.op = "CreateInsight"
    /\ last.err = "unique"
    /\ Cardinality(insights) = 2
    /\ threads # {}

NotFoundOps == {"GetInsight", "GetThread", "UpdateInsight", "UpdateThread", "DeleteInsight"}
OnThreads(op) == op \in {"GetThread", "UpdateThread"}
Stored(op, id) == IF OnThreads(op) THEN ThreadKeyTaken(threads, id)
                  ELSE InsightKeyTaken(insights, id)

\* a call on an identifier that is not stored: not-found, nothing changes
AbsentIsNotFound ==
    (last'.op \in NotFoundOps /\ ~Stored(last'.op, last'.id))
        => (last'.err = "not_found" /\ TablesUnchanged)

\* a get of a stored identifier returns the stored entity
GetReturnsEntity ==
    /\ (last'.op = "GetInsight" /\ Stored(last'.op, last'.id))
        => (last'.err = "none" /\ last'.val.ID = last'.id
            /\ InsightRow(last'.val) \in insights)
    /\ (last'.op = "GetThread" /\ Stored(last'.op, last'.id))
        => (last'.err = "none" /\ last'.val.ID = last'.id
            /\ ThreadRow(last'.val) \in threads)

Range(q) == {q[i] : i \in 1..Len(q)}
StoredInsights == {ScanInsight(r) : r \in insights}
Satisfies(i, T, Y, S) ==
    /\ (T = <<>> \/ i.ThreadID = T)
    /\ (Y = <<>> \/ i.Type = Y)
    /\ (S = 0 \/ i.Timestamp >= S)
ThreadFilters == {<<>>} \cup ThreadIDs
TypeFilters == {<<>>} \cup InsightTypes

\* C6: ListInsights(T, Y, S) returns exactly the stored insights that satisfy
\* all supplied filters, each once; replacing one supplied filter by its
\* empty or zero value gives a superset.
C6_FilterConjunction ==
    LET stored == StoredInsights
        lists == [T \in ThreadFilters |-> [Y \in TypeFilters |-> [S \in Times |->
                    ListInsights(T, Y, S)]]]
        found == [T \in ThreadFilters |-> [Y \in TypeFilters |-> [S \in Times |->
                    UNION {Range(w) : w \in lists[T][Y][S]}]]]
    IN /\ lists \in [ThreadFilters -> [TypeFilters -> [Times -> SUBSET Seq(stored)]]]
       /\ \A T \in ThreadFilters, Y \in TypeFilters, S \in Times :
        LET expected == {i \in stored : Satisfies(i, T, Y, S)}
        IN /\ lists[T][Y][S] # {}
           /\ \A q \in lists[T][Y][S] :
                /\ Range(q) = expected
                /\ Len(q) = Cardinality(Range(q))
           /\ expected \subseteq found[<<>>][Y][S]
           /\ expected \subseteq found[T][<<>>][S]
           /\ expected \subseteq found[T][Y][0]

\* witness of C6: two insights stored; three supplied filters select one of
\* them, whose timestamp equals the since value, and without the thread
\* filter both are selected
C6_Witness ==
    /\ Cardinality(insights) = 2
    /\ \E T \in ThreadIDs, Y \in InsightTypes, S \in Times \ {0} :
        /\ \E q \in ListInsights(T, Y, S) : Len(q) = 1 /\ q[1].Timestamp = S
        /\ \E q \in ListInsights(<<>>, Y, S) : Len(q) = 2

(***************************************************************************)
(* The dependencies table as a state machine                               *)
(***************************************************************************)
DependencyInputs ==
    {[From |-> f, To |-> t, Type |-> y, CreatedAt |-> c] :
        f \in InsightIDs, t \in {<<"ins-2">>, <<"bead-1">>},
        y \in {<<"builds-on">>, <<"spawns">>}, c \in {1, MaxTime}}

\* link and spawn add an edge; the table is kept within MaxDeps rows
AddDependencyStep ==
    \E dep \in DependencyInputs :
        /\ (Cardinality(dependencies) < MaxDeps \/ AddDependencyErr(dependencies, dep) # "none")
        /\ AddDependency(dep)

NextDeps == AddDependencyStep

SpecDeps == Init /\ [][NextDeps]_vars

SameTriple(r, id) == <<r.from_id, r.to_id, r.type>> = id

\* C4: AddDependency of a stored (source, target, type) triple returns the
\* duplicate error and leaves the stored edge, creation time included, and
\* everything else unchanged; with a triple that is not stored (the same
\* source and target under another type included) it succeeds and adds
\* exactly that edge; no two stored edges share a triple.
C4_EdgeUniqueness ==
    /\ [](\A r1, r2 \in dependencies :
            (r1.from_id = r2.from_id /\ r1.to_id = r2.to_id /\ r1.type = r2.type) => r1 = r2)
    /\ [][(last'.op = "AddDependency" /\ \E r \in dependencies : SameTriple(r, last'.id))
            => (last'.err = "unique" /\ TablesUnchanged)]_vars
    /\ [][(last'.op = "AddDependency" /\ ~\E r \in dependencies : SameTriple(r, last'.id))
            => (/\ last'.err = "none"
                /\ dependencies' = dependencies \cup {DependencyRow(last'.val)}
                /\ SameTriple(DependencyRow(last'.val), last'.id)
                /\ Cardinality(dependencies') = Cardinality(dependencies) + 1)]_vars

\* witness of C4: a duplicate refused whose creation time differs from the
\* stored edge's, while the same pair is also linked under another type
C4_Witness ==
    /\ last.op = "AddDependency"
    /\ last.err = "unique"
    /\ \E r \in dependencies :
        /\ SameTriple(r, last.id)
        /\ r.created_at # last.val.CreatedAt
        /\ \E r2 \in dependencies :
            r2.from_id = r.from_id /\ r2.to_id = r.to_id /\ r2.type # r.type

(***************************************************************************)
(* traceChain over every dependency graph of at most MaxDeps edges         *)
(***************************************************************************)
TraceIDs == {<<"ins-1">>, <<"ins-2">>, <<"ins-3">>}
TraceTypes == {<<"builds-on">>, <<"supersedes">>, <<"contradicts">>}
TraceEdges ==
    {[from_id |-> f, to_id |-> t, type |-> y, created_at |-> 1] :
        f \in TraceIDs, t \in TraceIDs, y \in TraceTypes}

\* all subsets of S with at most n elements
RECURSIVE SetsUpTo(_, _)
SetsUpTo(S, n) ==
    IF n = 0 THEN {{}}
    ELSE LET smaller == SetsUpTo(S, n - 1)
         IN smaller \cup {g \cup {x} : g \in smaller, x \in S}

InitTrace ==
    /\ insights = {}
    /\ threads = {}
    /\ dependencies \in SetsUpTo(TraceEdges, MaxDeps)
    /\ last = NoLast
    /\ tr = NoTrace
    /\ config = {}
    /\ db = OpenedDb
    /\ run = NoRun
    /\ InitCodec

StartTraceStep == \E startID \in TraceIDs : StartTrace(startID)

NextTrace ==
    \/ StartTraceStep
    \/ TraceStep
    \/ EndTrace

\* the loop of traceChain runs in one thread to its end: an enabled
\* iteration is eventually taken
SpecTrace == InitTrace /\ [][NextTrace]_vars /\ WF_vars(TraceStep)

GraphNodes == {r.from_id : r \in dependencies} \cup {r.to_id : r \in dependencies}
ChainIDs == {tr.chain[i].insightID : i \in 1..Len(tr.chain)}

\* C10: on every finite dependency graph, cycles among builds-on and
\* supersedes edges and self-loops included, the backward walk from any
\* start terminates, and the chain it returns is finite: it never holds more
\* items than there are nodes.
C10_TraceTerminates ==
    /\ (tr.pc = "loop") ~> (tr.pc = "done")
    /\ [](Len(tr.chain) = Cardinality(tr.visited))
    /\ [](tr.visited \subseteq GraphNodes \cup {tr.start})

\* witness of C10: the walk has ended on the cycle of three builds-on or
\* supersedes edges, with all three nodes in the chain
C10_Witness ==
    /\ tr.pc = "done"
    /\ Len(tr.chain) = 3
    /\ tr.current = tr.start
    /\ \A r \in dependencies : Followed(ScanDependency(r)) /\ r.from_id # r.to_id
    /\ Cardinality(dependencies) = 3

\* witness of a self-loop: the walk ends after one item
C10_WitnessSelfLoop ==
    /\ tr.pc = "done"
    /\ Len(tr.chain) = 1
    /\ tr.current = tr.start

(***************************************************************************)
(* Export of the store to the three log files and rebuild of an empty      *)
(* store from them (the sync of the hooks: export, then import)            *)
(***************************************************************************)
\* the orders in which ListThreads may return rows (ORDER BY updated_at DESC)
OrderByUpdatedAtDesc(rows) ==
    {q \in [1..Cardinality(rows) -> rows] :
        /\ \A i, j \in 1..Cardinality(rows) : i # j => q[i] # q[j]
        /\ \A i, j \in 1..Cardinality(rows) : i < j => q[i].updated_at >= q[j].updated_at}

\* ListThreads with the given status, "" for all
ListThreads(status) ==
    LET rows == {r \in threads : status # <<>> => r.status = status}
    IN {[i \in 1..Len(q) |-> ScanThread(q[i])] : q \in OrderByUpdatedAtDesc(rows)}

\* every edge of the store, oldest first
AllDependencies ==
    {[i \in 1..Len(q) |-> ScanDependency(q[i])] : q \in OrderByCreatedAt(dependencies)}

\* CreateThread, CreateInsight and AddDependency called for each imported
\* record in turn, a refused record being skipped
RECURSIVE CreateThreads(_, _)
CreateThreads(trows, items) ==
    IF items = <<>> THEN trows
    ELSE CreateThreads(IF CreateThreadErr(trows, Head(items)) = "none"
                       THEN trows \cup {ThreadRow(Head(items))} ELSE trows,
                       Tail(items))

RECURSIVE CreateInsights(_, _, _)
CreateInsights(irows, trows, items) ==
    IF items = <<>> THEN irows
    ELSE CreateInsights(IF CreateInsightErr(irows, trows, Head(items)) = "none"
                        THEN irows \cup {InsightRow(Head(items))} ELSE irows,
                        trows, Tail(items))

RECURSIVE AddDependencies(_, _)
AddDependencies(drows, items) ==
    IF items = <<>> THEN drows
    ELSE AddDependencies(IF AddDependencyErr(drows, Head(items)) = "none"
                         THEN drows \cup {DependencyRow(Head(items))} ELSE drows,
                         Tail(items))

\* export the three collections, import the three files, fill an empty store
Rebuild ==
    \E ts \in ListThreads(<<>>), is \in ListInsights(<<>>, <<>>, 0), ds \in AllDependencies :
        LET rt == readJSONL("threads", writeJSONL("threads", ts))
            ri == readJSONL("insights", writeJSONL("insights", is))
            rd == readJSONL("deps", writeJSONL("deps", ds))
            trows == CreateThreads({}, rt.items)
        IN /\ threads' = trows
           /\ insights' = CreateInsights({}, trows, ri.items)
           /\ dependencies' = AddDependencies({}, rd.items)
           /\ last' = Outcome("Rebuild", <<>>,
                              IF rt.err = "none" /\ ri.err = "none" /\ rd.err = "none"
                              THEN "none" ELSE "import", <<>>)
           /\ UNCHANGED <<tr, codecVars, sysVars>>

SyncThreadInputs == {FullThread, BareThread}

SyncInsightInputs ==
    {FullInsight,
     [FullInsight EXCEPT !.ID = <<"ins-2">>, !.ThreadID = <<>>, !.AuthorID = <<>>],
     [BareInsight EXCEPT !.ThreadID = <<"thr-2">>],
     [BareInsight EXCEPT !.EndorsedBy = EmptySlice],
     [BareInsight EXCEPT !.ID = <<"ins-1">>, !.Content = <<"a", RUN>>]}

SyncDependencyInputs ==
    {[From |-> <<"ins-1">>, To |-> <<"ins-2">>, Type |-> <<"builds-on">>, CreatedAt |-> 1],
     [From |-> <<"ins-1">>, To |-> <<"ins-2">>, Type |-> <<"supersedes">>, CreatedAt |-> MaxTime],
     [From |-> <<"ins-2">>, To |-> <<"bead-1">>, Type |-> <<"spawns">>, CreatedAt |-> MaxTime]}

SyncCreateThread == \E thread \in SyncThreadInputs : CreateThread(thread)
SyncCreateInsight == \E insight \in SyncInsightInputs : CreateInsight(insight)
SyncAddDependency == \E dep \in SyncDependencyInputs : AddDependency(dep)

NextSync ==
    \/ SyncCreateThread
    \/ SyncCreateInsight
    \/ SyncAddDependency
    \/ Rebuild

SpecSync == Init /\ [][NextSync]_vars

SameOutcome(a, b) == a.err = b.err /\ (a.err = "none" => a.val = b.val)

\* C2: after export of the three collections and rebuild of an empty store
\* from the imported files, GetInsight and GetThread of every identifier
\* return what they returned before and the dependency edges are the same:
\* no record or edge is lost, added or altered.
C2_ExportRebuild ==
    [][last'.op = "Rebuild" =>
        /\ \A id \in InsightIDs :
            SameOutcome(GetInsightResult(insights', id), GetInsightResult(insights, id))
        /\ \A id \in ThreadIDs :
            SameOutcome(GetThreadResult(threads', id), GetThreadResult(threads, id))
        /\ dependencies' = dependencies]_vars

(***************************************************************************)
(* cmd/bdc/trace.go: runTrace, the command around traceChain               *)
(***************************************************************************)
Chars(n, s) == SubSeq(s, 1, n)

\* beads.IsBeadID: longer than 5 bytes and starting with "bead-" or "bd-"
IsBeadID(id) ==
    /\ Len(id) > 5
    /\ \/ Chars(5, id) = <<"b", "e", "a", "d", "-">>
       \/ Chars(3, id) = <<"b", "d", "-">>

\* the identifiers of allInsights that have a spawns edge to the bead, in
\* the order of allInsights
SpawningInsights(all, beadID) ==
    LET Spawns(id) == \E deps \in GetDependencies(id) : \E i \in 1..Len(deps) :
                          deps[i].To = beadID /\ deps[i].Type = <<"spawns">>
    IN SelectSeq([i \in 1..Len(all) |-> all[i].ID], Spawns)

\* the line printed under item i of the chain
Annotation_OwnRelation(chain, i, beadID) ==
    IF i < Len(chain) THEN [edge |-> chain[i].relationFromPrev, to |-> <<>>]
    ELSE [edge |-> <<"spawns">>, to |-> beadID]

\* the line printed under item i of the chain: the relation of the next
\* item, and "spawns" with the bead under the last one
Annotation(chain, i, beadID) ==
    IF i < Len(chain) THEN [edge |-> chain[i + 1].relationFromPrev, to |-> <<>>]
    ELSE [edge |-> <<"spawns">>, to |-> beadID]

\* what the print loop writes for a chain: an item whose identifier is not in
\* insightMap is passed over
PrintChain(chain, insightMap, beadID) ==
    LET shown == SelectSeq([i \in 1..Len(chain) |-> i],
                           LAMBDA i : chain[i].insightID \in insightMap)
    IN [k \in 1..Len(shown) |->
           [insightID |-> chain[shown[k]].insightID,
            under |-> Annotation(chain, shown[k], beadID)]]

TraceRun(p, beadID, e, all, pending, out) ==
    [pc |-> p, cmd |-> "trace", beadID |-> beadID, err |-> e, all |-> all,
     pending |-> pending, out |-> out]

\* runTrace up to the loop over the spawning insights
runTrace(beadID) ==
    /\ run.pc = "idle" /\ tr.pc = "idle"
    /\ IF ~IsBeadID(beadID)
       THEN run' = TraceRun("done", beadID, "invalid bead ID", {}, <<>>, <<>>)
       ELSE \E all \in ListInsights(<<>>, <<>>, 0) :
               LET spawning == SpawningInsights(all, beadID) IN
               run' = TraceRun(IF spawning = <<>> THEN "done" ELSE "chain", beadID, "none",
                               {all[i].ID : i \in 1..Len(all)}, spawning, <<>>)
    /\ UNCHANGED <<storeVars, codecVars, config, db>>

\* the loop calls traceChain for the next spawning insight
CallTraceChain ==
    /\ run.pc = "chain"
    /\ StartTrace(Head(run.pending))

\* traceChain has returned: the chain is printed
PrintTrace ==
    /\ run.pc = "chain" /\ tr.pc = "done"
    /\ run' = [run EXCEPT !.out = Append(@, [spawnID |-> Head(run.pending),
                                              chain |-> tr.chain,
                                              stopped |-> tr.current,
                                              printed |-> PrintChain(tr.chain, run.all,
                                                                     run.beadID)]),
                          !.pending = Tail(@),
                          !.pc = IF Tail(run.pending) = <<>> THEN "done" ELSE "chain"]
    /\ tr' = NoTrace
    /\ UNCHANGED <<insights, threads, dependencies, last, codecVars, config, db>>

\* the command returns
Exit ==
    /\ run.pc = "done"
    /\ run' = NoRun
    /\ UNCHANGED <<storeVars, codecVars, config, db>>

(***************************************************************************)
(* bdc trace as a state machine: three stored insights, a graph of edges   *)
(* among them, an identifier that is not stored and a bead                 *)
(***************************************************************************)
InsA == <<"ins-1">>
InsB == <<"ins-2">>
InsC == <<"ins-3">>
InsD == <<"ins-9">>       \* never stored
BeadX == <<"b", "e", "a", "d", "-", "1">>
ShortBead == <<"b", "d", "-", "1", "2">>

Edge(f, t, y, c) == [from_id |-> f, to_id |-> t, type |-> <<y>>, created_at |-> c]

RunTraceEdges ==
    {Edge(InsA, InsB, "builds-on", 2), Edge(InsB, BeadX, "spawns", 1),
     Edge(InsB, InsA, "builds-on", 2), Edge(InsC, InsB, "supersedes", 3),
     Edge(InsC, InsB, "contradicts", 1), Edge(InsC, InsB, "builds-on", 2),
     Edge(InsB, InsB, "builds-on", 1), Edge(InsD, InsA, "supersedes", 1),
     Edge(InsC, BeadX, "spawns", 1), Edge(InsD, BeadX, "spawns", 1),
     Edge(InsA, InsB, "informed-by", 1), Edge(InsC, InsA, "builds-on", 3),
     Edge(InsB, InsC, "builds-on", 3)}

RunTraceInsights ==
    {InsightRow([BareInsight EXCEPT !.ID = InsA, !.Timestamp = 1]),
     InsightRow([BareInsight EXCEPT !.ID = InsB, !.Timestamp = 2]),
     InsightRow([BareInsight EXCEPT !.ID = InsC, !.Timestamp = 2])}

InitRunTrace ==
    /\ insights = RunTraceInsights
    /\ threads = {}
    /\ dependencies \in SetsUpTo(RunTraceEdges, MaxDeps + 1)
    /\ last = NoLast
    /\ tr = NoTrace
    /\ config = {}
    /\ db = OpenedDb
    /\ run = NoRun
    /\ InitCodec

runTraceStep == \E beadID \in {BeadX, ShortBead} : runTrace(beadID)

NextRunTrace ==
    \/ runTraceStep
    \/ CallTraceChain
    \/ TraceStep
    \/ PrintTrace
    \/ Exit

SpecRunTrace == InitRunTrace /\ [][NextRunTrace]_vars

StoredIDs == {r.id : r \in insights}
FollowedEdge(f, t) ==
    {r \in dependencies : r.from_id = f /\ r.to_id = t
                          /\ r.type \in {<<"builds-on">>, <<"supersedes">>}}
IncomingFollowed(t) ==
    {r \in dependencies : r.to_id = t /\ r.type \in {<<"builds-on">>, <<"supersedes">>}}
Ids(chain) == [i \in 1..Len(chain) |-> chain[i].insightID]
TraceOut == IF run.pc # "idle" /\ run.cmd = "trace" THEN run.out ELSE <<>>

\* the parts of the trace result on which the claim and the code agree: one
\* chain per stored insight with a spawns edge to the bead; each chain ends
\* with that insight, neighbours are joined by a stored builds-on or
\* supersedes edge from the earlier to the later entry, the annotation between
\* them is the type of that edge and the last annotation is spawns with the bead
ChainsOfSpawners ==
    /\ \A k \in 1..Len(TraceOut) :
        LET e == TraceOut[k] IN
        /\ Len(e.chain) > 0
        /\ e.chain[Len(e.chain)].insightID = e.spawnID
        /\ e.spawnID \in StoredIDs
        /\ \E r \in dependencies :
              r.from_id = e.spawnID /\ r.to_id = run.beadID /\ r.type = <<"spawns">>
        /\ \A i \in 1..(Len(e.chain) - 1) :
              \E r \in FollowedEdge(e.chain[i].insightID, e.chain[i + 1].insightID) :
                  r.type = e.chain[i + 1].relationFromPrev
        /\ \A j \in 1..Len(TraceOut) : TraceOut[j].spawnID = e.spawnID => j = k
    /\ (run.pc = "done" /\ run.cmd = "trace" /\ run.err = "none") =>
          {TraceOut[k].spawnID : k \in 1..Len(TraceOut)} =
              {id \in StoredIDs : \E r \in dependencies :
                  r.from_id = id /\ r.to_id = run.beadID /\ r.type = <<"spawns">>}

\* the output shows every entry of the chain with the annotation of its step
ShownInFull(e) ==
    /\ Len(e.printed) = Len(e.chain)
    /\ \A i \in 1..Len(e.chain) :
        /\ e.printed[i].insightID = e.chain[i].insightID
        /\ e.printed[i].under =
              IF i < Len(e.chain)
              THEN [edge |-> e.chain[i + 1].relationFromPrev, to |-> <<>>]
              ELSE [edge |-> <<"spawns">>, to |-> run.beadID]

C12_TieBreak ==
    [][(tr.pc = "loop" /\ TraceContinues(tr) /\ tr'.pc = "loop") =>
        LET deps == last'.val
            incoming == {ScanDependency(r) : r \in {x \in dependencies : x.to_id = tr.current}}
            cand == {d \in incoming : d.Type \in {<<"builds-on">>, <<"supersedes">>}}
            item == tr'.chain[1]
        IN /\ last'.op = "GetDependents" /\ last'.id = tr.current
           /\ {deps[i] : i \in 1..Len(deps)} = incoming
           /\ Len(deps) = Cardinality(incoming)
           /\ \A i, j \in 1..Len(deps) : i < j => deps[i].CreatedAt <= deps[j].CreatedAt
           /\ item.insightID = tr.current
           /\ IF cand = {} THEN tr'.current = <<>> /\ item.relationFromPrev = <<>>
              ELSE \E d \in cand :
                      /\ d.From = tr'.current /\ d.Type = item.relationFromPrev
                      /\ \A e \in cand : d.CreatedAt <= e.CreatedAt]_vars

\* witness of C12: the node has an older contradicts edge, a builds-on edge
\* and a younger supersedes edge; the walk has followed the builds-on edge
C12_Witness ==
    /\ tr.pc = "loop" /\ Len(tr.chain) = 1
    /\ last.op = "GetDependents" /\ Len(last.val) = 3
    /\ last.val[1].Type = <<"contradicts">>
    /\ last.val[2].Type = <<"builds-on">>
    /\ last.val[3].Type = <<"supersedes">>
    /\ last.val[1].CreatedAt < last.val[2].CreatedAt
    /\ last.val[2].CreatedAt < last.val[3].CreatedAt
    /\ tr.current = last.val[2].From

(***************************************************************************)
(* filterUnresolved of the questions command                               *)
(***************************************************************************)
\* a scan that takes any incoming edge for a supersession
IsSuperseded_AnyType(deps) == Len(deps) > 0

\* the scan of the dependents of an insight for an edge of type supersedes
IsSuperseded(deps) == \E i \in 1..Len(deps) : deps[i].Type = <<"supersedes">>

\* the insights of the list that are not superseded, in the order of the list
filterUnresolved(list) ==
    SelectSeq(list, LAMBDA insight :
                       \A deps \in GetDependents(insight.ID) : ~IsSuperseded(deps))

FilterUnresolved(list) ==
    /\ last' = Outcome("filterUnresolved", list, "none", filterUnresolved(list))
    /\ UNCHANGED <<insights, threads, dependencies, tr, codecVars, sysVars>>

Question(id) == [BareInsight EXCEPT !.ID = id]

UnresolvedEdges ==
    {Edge(InsC, InsB, "supersedes", 1), Edge(InsB, InsC, "supersedes", 2),
     Edge(InsA, InsB, "builds-on", 1), Edge(InsB, InsA, "contradicts", 1),
     Edge(InsA, InsC, "supersedes", 2), Edge(InsC, InsA, "builds-on", 2),
     Edge(InsD, InsC, "supersedes", 1), Edge(InsB, InsB, "supersedes", 1),
     Edge(BeadX, InsA, "informed-by", 1), Edge(InsA, BeadX, "spawns", 2)}

InitUnresolved ==
    /\ insights = {}
    /\ threads = {}
    /\ dependencies \in SetsUpTo(UnresolvedEdges, MaxDeps)
    /\ last = NoLast
    /\ tr = NoTrace
    /\ config = {}
    /\ db = OpenedDb
    /\ run = NoRun
    /\ InitCodec

FilterUnresolvedStep ==
    \E list \in SeqsUpTo({Question(InsA), Question(InsB), Question(InsC)}, MaxRecords) :
        FilterUnresolved(list)

NextUnresolved == FilterUnresolvedStep

SpecUnresolved == InitUnresolved /\ [][NextUnresolved]_vars

\* C13: filterUnresolved returns exactly the insights of its input that are
\* not the target of an edge of type supersedes, in the order of the input;
\* incoming edges of other types and outgoing supersedes edges exclude nothing.
C13_Unresolved ==
    last.op = "filterUnresolved" =>
        LET list == last.id
            result == last.val
            kept == {i \in 1..Len(list) :
                        ~\E r \in dependencies :
                            r.to_id = list[i].ID /\ r.type = <<"supersedes">>}
        IN /\ Len(result) = Cardinality(kept)
           /\ \A n \in 1..Len(result) :
                \E i \in kept :
                    /\ result[n] = list[i]
                    /\ Cardinality({j \in kept : j < i}) = n - 1

\* witness of C13: Q1 has no incoming edge, Q2 is superseded by Q3 and has
\* other edges; of the list Q1, Q2 the filter returns Q1
C13_Witness ==
    /\ last.op = "filterUnresolved"
    /\ last.id = <<Question(InsA), Question(InsB)>>
    /\ last.val = <<Question(InsA)>>
    /\ Edge(InsC, InsB, "supersedes", 1) \in dependencies
    /\ \A r \in dependencies : r.to_id # InsA
    /\ \E r \in dependencies : r.from_id = InsA /\ r.type = <<"supersedes">>

(***************************************************************************)
(* Opening and closing the store on one database file                      *)
(***************************************************************************)
InitMigrate ==
    /\ insights = {}
    /\ threads = {}
    /\ dependencies = {}
    /\ last = NoLast
    /\ tr = NoTrace
    /\ config = {}
    /\ db = NoDb
    /\ run = NoRun
    /\ InitCodec

EnableForeignKeysStep == \E ioError \in BOOLEAN : EnableForeignKeys(ioError)
RunMigrationsStep == \E ioError \in BOOLEAN : RunMigrations(ioError)

\* rows are written through a Store that NewStore returned
MigrateCreateInsight ==
    /\ db.pc = "idle" /\ db.result = "store"
    /\ \E insight \in {BareInsight, [FullInsight EXCEPT !.ThreadID = <<>>]} :
          CreateInsight(insight)

MigrateCreateThread ==
    /\ db.pc = "idle" /\ db.result = "store"
    /\ CreateThread(FullThread)

NextMigrate ==
    \/ NewStore
    \/ EnableForeignKeysStep
    \/ RunMigrationsStep
    \/ Close
    \/ MigrateCreateInsight
    \/ MigrateCreateThread

SpecMigrate == InitMigrate /\ [][NextMigrate]_vars

Migrating == db.pc \in {"pragma", "migrate"}

\* the schemas with which RunMigrations returns nil: migration 002 returns
\* before its CREATE INDEX when the column is already there
MigratedSchemas == {FullSchema, FullSchema \ {"index idx_insights_author_id"}}

\* C14: once RunMigrations has succeeded on a database, every further run
\* leaves the schema as that run left it, changes no row, has no statement
\* refused, and fails only if the database itself fails.
C14_IdempotentMigration ==
    /\ [](db.result = "store" => db.schema \in MigratedSchemas)
    /\ \A S \in MigratedSchemas :
         [](db.result = "store" /\ db.schema = S =>
              [](db.schema = S /\ db.err \in {"none", "io"}))
    /\ [][Migrating => UNCHANGED <<insights, threads, dependencies, config>>]_vars

\* witness of C14: NewStore has succeeded on a database that holds rows
\* written through an earlier Store
C14_Witness ==
    /\ last.op = "NewStore" /\ last.err = "none"
    /\ db.result = "store" /\ db.pc = "idle"
    /\ Cardinality(insights) = 2 /\ threads # {}

\* the names of the migrations the running or last NewStore call has started
StartedNames == [k \in 1..Len(db.started) |-> migrationsList[db.started[k]].Name]

FixedOrder == <<"001_initial_schema", "002_insights_author_id",
                "003_insights_endorsed_by", "004_config_table">>

\* C15: a NewStore call starts the migrations in the fixed order initial
\* schema, author column, endorsers column, config table; it returns a Store
\* only after all four, on an open handle; when a step fails no later step
\* is started, the call returns an error and no Store, and the handle it
\* opened is closed.
C15_OrderAndAbort ==
    /\ [](/\ Len(StartedNames) <= Len(FixedOrder)
          /\ StartedNames = SubSeq(FixedOrder, 1, Len(StartedNames)))
    /\ [](db.result = "store" => StartedNames = FixedOrder /\ db.handle = "open")
    /\ [](db.result = "error" => db.handle = "closed" /\ db.pc = "idle")
    /\ [][(Migrating /\ db'.result = "error") =>
            /\ db'.started = db.started
            /\ db'.err # "none"
            /\ last' = Outcome("NewStore", <<>>, db'.err, <<>>)]_vars
    /\ [][db.result = "error" => db'.started \in {db.started, <<>>}]_vars

\* witness of C15: the second migration failed on a statement, NewStore
\* returned the error and the handle is closed
C15_Witness ==
    /\ db.result = "error" /\ db.handle = "closed"
    /\ StartedNames = SubSeq(FixedOrder, 1, 2)
    /\ "column insights.author_id" \in db.schema
    /\ last.op = "NewStore" /\ last.err = "io"

(***************************************************************************)
(* The optional scalar fields of an insight through the store              *)
(***************************************************************************)
\* what a caller may mean by an optional scalar: nothing, or a string
FieldAbsent == [set |-> FALSE, s |-> <<>>]
FieldSet(x) == [set |-> TRUE, s |-> x]
FieldStates == {FieldAbsent, FieldSet(<<>>), FieldSet(<<"thr-1">>)}

\* ThreadID and AuthorID are of type string: a field not set holds ""
FieldValue(f) == IF f.set THEN f.s ELSE <<>>

WithFields(id, t, a) ==
    [BareInsight EXCEPT !.ID = id, !.ThreadID = FieldValue(t), !.AuthorID = FieldValue(a)]

NullableInputs == {WithFields(id, t, a) : id \in InsightIDs, t \in FieldStates, a \in FieldStates}

InitNullable ==
    /\ insights = {}
    /\ threads = {ThreadRow(FullThread)}
    /\ dependencies = {}
    /\ last = NoLast
    /\ tr = NoTrace
    /\ config = {}
    /\ db = OpenedDb
    /\ run = NoRun
    /\ InitCodec

NullableCreate == \E insight \in NullableInputs : CreateInsight(insight)
NullableUpdate == \E insight \in NullableInputs : UpdateInsight(insight)
NullableGet == \E id \in InsightIDs : GetInsight(id)

NextNullable == NullableCreate \/ NullableUpdate \/ NullableGet

SpecNullable == InitNullable /\ [][NextNullable]_vars

\* the step is a successful CreateInsight or UpdateInsight of the insight
Writes(insight) ==
    /\ CreateInsight(insight) \/ UpdateInsight(insight)
    /\ last'.err = "none"

Causes == {"unique", "foreign_key", "not_found", "io"}

\* the format of the error an operation returns for a cause; %w wraps the
\* error of the database driver, whose text the store does not inspect
ErrorFormat(op, cause) ==
    CASE cause = "none" -> "nil"
      [] cause = "not_found" /\ op \in {"GetInsight", "UpdateInsight", "DeleteInsight"} ->
            "insight not found: %s"
      [] cause = "not_found" /\ op \in {"GetThread", "UpdateThread"} -> "thread not found: %s"
      [] op = "CreateInsight" -> "failed to insert insight: %w"
      [] op = "CreateThread" -> "failed to insert thread: %w"
      [] op = "AddDependency" /\ cause = "unique" -> "dependency already exists: %s -> %s (%s)"
      [] op = "AddDependency" -> "failed to insert dependency: %w"
      [] OTHER -> "failed: %w"

\* C17: a create that fails on a uniqueness violation returns an error of a
\* kind of its own: the error differs in kind from the one the same
\* operation returns for any other failure and from not found, for
\* insights, threads and dependencies alike.
C17_ErrorKinds ==
    (last.op \in {"CreateInsight", "CreateThread", "AddDependency"} /\ last.err = "unique") =>
        /\ \A cause \in Causes \ {"unique", "not_found"} :
              ErrorFormat(last.op, last.err) # ErrorFormat(last.op, cause)
        /\ ErrorFormat(last.op, last.err)
              \notin {"insight not found: %s", "thread not found: %s"}

(***************************************************************************)
(* The config table: key TEXT PRIMARY KEY, value TEXT NOT NULL             *)
(***************************************************************************)
\* a plain INSERT on a table without the primary key on key
SetConfigRows_InsertOnly(rows, key, value) == rows \cup {[key |-> key, value |-> value]}

\* INSERT ... ON CONFLICT(key) DO UPDATE SET value = excluded.value
SetConfigRows(rows, key, value) ==
    {r \in rows : r.key # key} \cup {[key |-> key, value |-> value]}

SetConfig(key, value) ==
    /\ config' = SetConfigRows(config, key, value)
    /\ last' = Outcome("SetConfig", key, "none", value)
    /\ UNCHANGED <<insights, threads, dependencies, tr, codecVars, db, run>>

\* SELECT value FROM config WHERE key = ?; sql.ErrNoRows gives "" and nil
GetConfigResult(rows, key) ==
    IF \E r \in rows : r.key = key
    THEN Outcome("GetConfig", key, "none", (CHOOSE r \in rows : r.key = key).value)
    ELSE Outcome("GetConfig", key, "none", <<>>)

GetConfig(key) ==
    /\ last' = GetConfigResult(config, key)
    /\ UNCHANGED <<insights, threads, dependencies, tr, codecVars, config, db, run>>

ConfigKeys == {<<"stealth_mode">>, <<"k">>, <<>>}
ConfigValues == {<<>>, <<"true">>, <<"false">>}

InitConfig == InitStore /\ InitCodec

SetConfigStep == \E key \in ConfigKeys, value \in ConfigValues : SetConfig(key, value)
GetConfigStep == \E key \in ConfigKeys : GetConfig(key)

NextConfig == SetConfigStep \/ GetConfigStep

SpecConfig == InitConfig /\ [][NextConfig]_vars

\* C18: SetConfig(k, v) makes v the value GetConfig(k) returns, keeps one
\* entry per key and leaves the value of every other key as it was; nothing
\* else changes the table, so GetConfig(k) returns the value of the most
\* recent SetConfig(k, v), and the empty string without error when k was
\* never set.
C18_ConfigUpsert ==
    /\ [](\A r1, r2 \in config : r1.key = r2.key => r1 = r2)
    /\ [][\A k \in ConfigKeys : \A v \in ConfigValues :
            SetConfig(k, v) =>
               /\ GetConfigResult(config', k).val = v
               /\ Cardinality({r \in config' : r.key = k}) = 1
               /\ \A o \in ConfigKeys \ {k} :
                     /\ GetConfigResult(config', o) = GetConfigResult(config, o)
                     /\ {r \in config' : r.key = o} = {r \in config : r.key = o}]_vars
    /\ [][(\A k \in ConfigKeys : \A v \in ConfigValues : ~SetConfig(k, v)) =>
            config' = config]_vars
    /\ [][\A k \in ConfigKeys :
            GetConfig(k) =>
               /\ last'.err = "none"
               /\ (\E r \in config : r.key = k /\ last'.val = r.value)
                    \/ (last'.val = <<>> /\ ~\E r \in config : r.key = k)]_vars

\* witness of C18: GetConfig has read a key that is set, while a second key
\* is set to another value and a third was never set
C18_Witness ==
    /\ last.op = "GetConfig" /\ last.err = "none" /\ last.val = <<"false">>
    /\ [key |-> last.id, value |-> <<"false">>] \in config
    /\ \E r \in config : r.key # last.id /\ r.value = <<"true">>
    /\ Cardinality(config) = 2

(***************************************************************************)
(* cmd/bdc: the timeline views (timeline, decisions, pivots, feedback,     *)
(* questions)                                                              *)
(***************************************************************************)
Swap(list, i, j) == [list EXCEPT ![i] = list[j], ![j] = list[i]]

\* the loop of reverseInsights from positions i and j (counted from 1)
RECURSIVE ReverseLoop(_, _, _)
ReverseLoop(list, i, j) ==
    IF i < j THEN ReverseLoop(Swap(list, i, j), i + 1, j - 1) ELSE list

\* the loop started one position short of the end
reverseInsights_ShortOfEnd(list) == ReverseLoop(list, 1, Len(list) - 1)

reverseInsights(list) == ReverseLoop(list, 1, Len(list))

\* the type each view passes to ListInsights
ViewType ==
    [timeline |-> <<>>, decisions |-> <<"decision">>, pivots |-> <<"pivot">>,
     feedback |-> <<"feedback">>, questions |-> <<"question">>]

Views == DOMAIN ViewType

\* a view: ListInsights, for questions the --unresolved filter, "No ... found"
\* for an empty list, else the reversal and one line per insight
View(view, threadID, since, unresolvedOnly) ==
    /\ view # "feedback" => since = 0
    /\ view # "questions" => ~unresolvedOnly
    /\ \E listed \in ListInsights(threadID, ViewType[view], since) :
          LET shown == IF unresolvedOnly THEN filterUnresolved(listed) ELSE listed
              printed == IF Len(shown) = 0 THEN <<>> ELSE reverseInsights(shown)
          IN last' = Outcome(view, threadID, "none",
                             [since |-> since, listed |-> listed, shown |-> shown,
                              printed |-> printed])
    /\ UNCHANGED <<insights, threads, dependencies, tr, codecVars, sysVars>>

runTimeline == \E threadID \in {<<>>, <<"thr-1">>} : View("timeline", threadID, 0, FALSE)
runDecisions == \E threadID \in {<<>>, <<"thr-1">>} : View("decisions", threadID, 0, FALSE)
runPivots == \E threadID \in {<<>>, <<"thr-1">>} : View("pivots", threadID, 0, FALSE)
runFeedback ==
    \E threadID \in {<<>>, <<"thr-1">>}, since \in Times : View("feedback", threadID, since, FALSE)
runQuestions ==
    \E threadID \in {<<>>, <<"thr-1">>}, unresolvedOnly \in BOOLEAN :
        View("questions", threadID, 0, unresolvedOnly)

ViewIDs == {<<"ins-1">>, <<"ins-2">>, <<"ins-3">>}
ViewTypes == {<<"decision">>, <<"pivot">>, <<"feedback">>, <<"question">>}

\* the row of an insight of thread thr-1 (ins-3: of no thread)
ViewRow(id, ts, y) ==
    InsightRow([BareInsight EXCEPT !.ID = id, !.Timestamp = ts, !.Type = y,
                                   !.ThreadID = IF id = <<"ins-3">> THEN <<>> ELSE <<"thr-1">>])

\* a table of up to three insights; the type <<>> stands for no row
InitViews ==
    /\ \E ts \in [ViewIDs -> Times], y \in [ViewIDs -> ViewTypes \cup {<<>>}] :
          /\ \A id \in ViewIDs : y[id] = <<>> => ts[id] = 0
          /\ insights = {ViewRow(id, ts[id], y[id]) : id \in {d \in ViewIDs : y[d] # <<>>}}
    /\ threads = {ThreadRow(FullThread)}
    /\ dependencies \in SUBSET {Edge(<<"ins-3">>, <<"ins-1">>, "supersedes", 1)}
    /\ last = NoLast
    /\ tr = NoTrace
    /\ config = {}
    /\ db = OpenedDb
    /\ run = NoRun
    /\ InitCodec

NextViews == runTimeline \/ runDecisions \/ runPivots \/ runFeedback \/ runQuestions

SpecViews == InitViews /\ [][NextViews]_vars

NonIncreasing(list) ==
    \A i, j \in 1..Len(list) : i < j => list[i].Timestamp >= list[j].Timestamp

NonDecreasing(list) ==
    \A i, j \in 1..Len(list) : i < j => list[i].Timestamp <= list[j].Timestamp

\* C19: ListInsights returns its result in non-increasing order of the
\* timestamp; a view prints the insights it shows in exactly the reversed
\* order (entry i of the printed list is entry n + 1 - i of the list), hence
\* in non-decreasing order, adding, dropping and duplicating nothing.
C19_Chronological ==
    last.op \in Views =>
        LET v == last.val
            n == Len(v.shown)
        IN /\ v.listed \in ListInsights(last.id, ViewType[last.op],
                                        IF last.op = "feedback" THEN v.since ELSE 0)
           /\ NonIncreasing(v.listed)
           /\ Len(v.printed) = n
           /\ \A i \in 1..n : v.printed[i] = v.shown[n + 1 - i]
           /\ NonDecreasing(v.printed)

\* witness of C19: the timeline of three insights, two of them of the same
\* timestamp
C19_Witness ==
    /\ last.op = "timeline"
    /\ Len(last.val.printed) = 3
    /\ last.val.printed[1].Timestamp = last.val.printed[2].Timestamp
    /\ last.val.printed[2].Timestamp < last.val.printed[3].Timestamp
    /\ last.val.printed # last.val.listed

(***************************************************************************)
(* types.GenerateID                                                        *)
(***************************************************************************)
\* the alphabet of encoding/hex
HexTable == <<"0", "1", "2", "3", "4", "5", "6", "7", "8", "9", "a", "b", "c", "d", "e", "f">>

\* hex.EncodeToString: two characters per byte, high nibble first
RECURSIVE EncodeToString(_)
EncodeToString(bytes) ==
    IF bytes = <<>> THEN <<>>
    ELSE <<HexTable[(Head(bytes) \div 16) + 1], HexTable[(Head(bytes) % 16) + 1]>>
            \o EncodeToString(Tail(bytes))

\* the identifier with the whole encoding of the bytes
GenerateID_Untruncated(prefix, bytes) == prefix \o <<"-">> \o EncodeToString(bytes)

\* GenerateID on the bytes rand.Read has filled in
GenerateID(prefix, bytes) == prefix \o <<"-">> \o Chars(4, EncodeToString(bytes))

\* values rand.Read may write into a byte
ByteSamples == {0, 122, 255}
RandomBytes == [1..4 -> ByteSamples]

\* the prefixes of NewInsight and NewThread, and the empty prefix of spawn
Prefixes == {<<"i", "n", "s">>, <<"t", "h", "r">>, <<>>}

GenerateIDCall ==
    /\ \E prefix \in Prefixes, bytes \in RandomBytes :
          last' = Outcome("GenerateID", prefix, "none",
                          [bytes |-> bytes, id |-> GenerateID(prefix, bytes)])
    /\ UNCHANGED <<insights, threads, dependencies, tr, codecVars, sysVars>>

InitID == InitStore /\ InitCodec

NextID == GenerateIDCall

SpecID == InitID /\ [][NextID]_vars

\* the part of an identifier after the prefix and the "-"
Suffix(prefix, id) == SubSeq(id, Len(prefix) + 2, Len(id))

\* the value of a lowercase hexadecimal character
HexValue(c) == (CHOOSE n \in 1..16 : HexTable[n] = c) - 1

IsLowerHex(str) == \A i \in 1..Len(str) : \E n \in 1..16 : HexTable[n] = str[i]

\* the byte a pair of hexadecimal characters stands for
ByteOf(str, k) == 16 * HexValue(str[2 * k - 1]) + HexValue(str[2 * k])

WellPrefixed(prefix, id) ==
    /\ Len(id) >= Len(prefix) + 1
    /\ SubSeq(id, 1, Len(prefix)) = prefix
    /\ id[Len(prefix) + 1] = "-"

\* C20 as stated: the identifier is the prefix, "-", and 8 lowercase
\* hexadecimal characters that encode all 4 random bytes.
C20_Original ==
    last.op = "GenerateID" =>
        LET suffix == Suffix(last.id, last.val.id) IN
        /\ WellPrefixed(last.id, last.val.id)
        /\ Len(suffix) = 8
        /\ IsLowerHex(suffix)
        /\ \A k \in 1..4 : ByteOf(suffix, k) = last.val.bytes[k]

\* C20 amended: the identifier is the prefix, "-", and 4 lowercase
\* hexadecimal characters that encode the first 2 of the 4 random bytes; the
\* other 2 bytes do not enter the identifier.
C20_IdentifierFormat ==
    last.op = "GenerateID" =>
        LET suffix == Suffix(last.id, last.val.id) IN
        /\ WellPrefixed(last.id, last.val.id)
        /\ Len(suffix) = 4
        /\ IsLowerHex(suffix)
        /\ \A k \in 1..2 : ByteOf(suffix, k) = last.val.bytes[k]
        /\ \A bytes \in RandomBytes :
              (bytes[1] = last.val.bytes[1] /\ bytes[2] = last.val.bytes[2])
                 => GenerateID(last.id, bytes) = last.val.id

\* witness of C20: an identifier made from four different-looking bytes
C20_Witness ==
    /\ last.op = "GenerateID" /\ last.id = <<"i", "n", "s">>
    /\ last.val.bytes = <<122, 255, 0, 122>>
    /\ last.val.id = <<"i", "n", "s", "-", "7", "a", "f", "f">>

(***************************************************************************)
(* cmd/bdc/thread.go: thread new, thread close, thread list                *)
(***************************************************************************)
\* a --status flag on the command line: not given, or given with a value
NoFlag == [set |-> FALSE, s |-> <<>>]
Flag(x) == [set |-> TRUE, s |-> x]

\* init binds the --status flags of list and of close to the one variable
\* threadStatus; each StringVar stores its default in it, the last one wins
threadStatusAfterInit == <<"concluded">>

\* threadStatus when the command runs: the flag's value when it is given
threadStatus(flag) == IF flag.set THEN flag.s ELSE threadStatusAfterInit

\* types.NewThread with the identifier GenerateID returned
NewThread(title, id, now) ==
    [ID |-> id, Title |-> title, Status |-> <<"active">>,
     CurrentUnderstanding |-> <<>>, CreatedAt |-> now, UpdatedAt |-> now]

\* thread close accepting whatever status it is given
ValidCloseStatus_Any(status) == TRUE

\* the test of thread close on the status of the flag
ValidCloseStatus(status) == status = <<"concluded">> \/ status = <<"abandoned">>

\* the rows of threads after the UPDATE of UpdateThread
UpdateThreadRows(trows, thread) ==
    {IF r.id = thread.ID
     THEN [r EXCEPT !.title = thread.Title, !.status = thread.Status,
                    !.current_understanding = thread.CurrentUnderstanding,
                    !.updated_at = thread.UpdatedAt]
     ELSE r : r \in trows}

threadNew(title, id, now) ==
    LET thread == NewThread(title, id, now)
        e == CreateThreadErr(threads, thread)
    IN /\ threads' = IF e = "none" THEN threads \cup {ThreadRow(thread)} ELSE threads
       /\ last' = Outcome("thread new", id, e, [flag |-> NoFlag, listed |-> <<>>])
       /\ UNCHANGED <<insights, dependencies, tr, codecVars, sysVars>>

threadClose(id, flag, now) ==
    LET got == GetThreadResult(threads, id)
        given == threadStatus(flag)
        newStatus == IF given # <<>> THEN given ELSE <<"concluded">>
        e == IF got.err # "none" THEN got.err
             ELSE IF given # <<>> /\ ~ValidCloseStatus(newStatus) THEN "invalid status"
             ELSE "none"
    IN /\ threads' = IF e = "none"
                     THEN UpdateThreadRows(threads, [got.val EXCEPT !.Status = newStatus,
                                                                    !.UpdatedAt = now])
                     ELSE threads
       /\ last' = Outcome("thread close", id, e, [flag |-> flag, listed |-> <<>>])
       /\ UNCHANGED <<insights, dependencies, tr, codecVars, sysVars>>

threadList(flag) ==
    /\ \E listed \in ListThreads(threadStatus(flag)) :
          last' = Outcome("thread list", <<>>, "none", [flag |-> flag, listed |-> listed])
    /\ UNCHANGED <<insights, threads, dependencies, tr, codecVars, sysVars>>

StatusFlags ==
    {NoFlag, Flag(<<>>), Flag(<<"active">>), Flag(<<"concluded">>), Flag(<<"abandoned">>),
     Flag(<<"done">>)}

InitThreadCmd == InitStore /\ InitCodec

threadNewStep == \E id \in ThreadIDs, now \in Times : threadNew(<<"a">>, id, now)
threadCloseStep ==
    \E id \in ThreadIDs, flag \in StatusFlags, now \in Times : threadClose(id, flag, now)
threadListStep == \E flag \in StatusFlags : threadList(flag)

NextThreadCmd == threadNewStep \/ threadCloseStep \/ threadListStep

SpecThreadCmd == InitThreadCmd /\ [][NextThreadCmd]_vars

ThreadStatuses == {<<"active">>, <<"concluded">>, <<"abandoned">>}

\* C21: thread new stores a thread of status active; thread close sets the
\* status to concluded or abandoned only, and with a flag naming another
\* status it returns an error and changes no thread; every stored thread
\* has one of the three statuses, and a thread that is not active never
\* becomes active again.
C21_ThreadStatus ==
    /\ [](\A r \in threads : r.status \in ThreadStatuses)
    /\ [][\A r \in threads' \ threads :
            \/ last'.op = "thread new" /\ r.id = last'.id /\ r.status = <<"active">>
            \/ /\ last'.op = "thread close" /\ r.id = last'.id
               /\ r.status \in {<<"concluded">>, <<"abandoned">>}
               /\ last'.val.flag.set /\ last'.val.flag.s # <<>> => r.status = last'.val.flag.s]_vars
    /\ [][(/\ last'.op = "thread close"
           /\ last'.val.flag.set
           /\ last'.val.flag.s \notin {<<>>, <<"concluded">>, <<"abandoned">>})
             => last'.err # "none" /\ threads' = threads]_vars
    /\ [][\A r \in threads : \A q \in threads' :
            (r.id = q.id /\ r.status # <<"active">>) => q.status # <<"active">>]_vars

\* witness of C21: thread close --status=abandoned has closed one thread
\* while the other is still active
C21_Witness ==
    /\ last.op = "thread close" /\ last.err = "none"
    /\ last.val.flag = Flag(<<"abandoned">>)
    /\ \E r \in threads : r.id = last.id /\ r.status = <<"abandoned">>
    /\ \E r \in threads : r.id # last.id /\ r.status = <<"active">>

\* C23: thread list without --status lists every stored thread, and with
\* --status=s the threads whose status is s.
C23_ThreadList ==
    last.op = "thread list" =>
        LET listed == {last.val.listed[i].ID : i \in 1..Len(last.val.listed)} IN
        /\ ~last.val.flag.set => listed = {r.id : r \in threads}
        /\ (last.val.flag.set /\ last.val.flag.s # <<>>) =>
              listed = {r.id : r \in {t \in threads : t.status = last.val.flag.s}}

(***************************************************************************)
(* cmd/bdc/root.go: getStore and closeStore, and the commands around them  *)
(***************************************************************************)
\* a command of the process: where it is, whether storeInstance is set,
\* and the error it returned
CmdRun(pc, cmd, inst, e) == [pc |-> pc, cmd |-> cmd, storeInstance |-> inst, err |-> e]

\* os.Stat(dbPath): the database file is there once a handle was opened on it
FileExists == db.handle # "none"

\* sql.Open in NewStore
OpenHandle(d) ==
    [d EXCEPT !.handle = "open", !.pc = "pragma", !.m = 0, !.i = 0,
              !.started = <<>>, !.result = "none", !.err = "none"]

\* Store.Close on the handle
CloseHandle(d) == [d EXCEPT !.handle = "closed", !.result = "none"]

\* closeStore that closes the store and keeps storeInstance
closeStore_KeepInstance(r, d) ==
    IF r.storeInstance THEN [run |-> r, db |-> CloseHandle(d)] ELSE [run |-> r, db |-> d]

\* closeStore: close the store if it is open and forget it
closeStore(r, d) ==
    IF r.storeInstance
    THEN [run |-> [r EXCEPT !.storeInstance = FALSE], db |-> CloseHandle(d)]
    ELSE [run |-> r, db |-> d]

Commands == {"init", "import", "capture", "thread list"}

\* the process runs a command; import --dry-run returns before getStore
StartCommand(cmd, dryRun) ==
    /\ run.pc = "idle" /\ db.pc = "idle"
    /\ dryRun => cmd = "import"
    /\ run' = CmdRun(IF dryRun THEN "idle" ELSE IF cmd = "init" THEN "init" ELSE "getStore",
                     cmd, run.storeInstance, "none")
    /\ UNCHANGED <<storeVars, codecVars, config, db>>

\* getStore up to the call of NewStore
getStore ==
    /\ run.pc = "getStore"
    /\ IF run.storeInstance
       THEN run' = [run EXCEPT !.pc = "body"] /\ db' = db
       ELSE IF ~FileExists
            THEN run' = [run EXCEPT !.pc = "idle", !.err = "database not found"] /\ db' = db
            ELSE run' = [run EXCEPT !.pc = "opening"] /\ db' = OpenHandle(db)
    /\ UNCHANGED <<storeVars, codecVars, config>>

\* NewStore has returned to getStore; the command defers closeStore
getStoreReturns ==
    /\ run.pc = "opening" /\ db.pc = "idle"
    /\ run' = IF db.result = "store"
              THEN [run EXCEPT !.pc = "body", !.storeInstance = TRUE]
              ELSE [run EXCEPT !.pc = "idle", !.err = "failed to open database"]
    /\ UNCHANGED <<storeVars, codecVars, config, db>>

\* the command returns with or without an error; the deferred closeStore runs
ReturnFromCommand(e) ==
    /\ run.pc = "body"
    /\ LET c == closeStore([run EXCEPT !.pc = "idle", !.err = e], db) IN
       run' = c.run /\ db' = c.db
    /\ UNCHANGED <<storeVars, codecVars, config>>

\* bdc init up to its call of NewStore
initCmd ==
    /\ run.pc = "init"
    /\ IF FileExists
       THEN run' = [run EXCEPT !.pc = "idle", !.err = "database already exists"] /\ db' = db
       ELSE run' = [run EXCEPT !.pc = "init opening"] /\ db' = OpenHandle(db)
    /\ UNCHANGED <<storeVars, codecVars, config>>

\* bdc init after NewStore: the stealth set-up, SetConfig, and s.Close() on
\* each of the three ways out
initCmdStore(stealth, e) ==
    /\ run.pc = "init opening" /\ db.pc = "idle"
    /\ ~stealth => e = "none"
    /\ IF db.result # "store"
       THEN /\ run' = [run EXCEPT !.pc = "idle", !.err = "failed to initialize database"]
            /\ db' = db /\ config' = config
       ELSE /\ run' = [run EXCEPT !.pc = "idle", !.err = e]
            /\ db' = CloseHandle(db)
            /\ config' = IF stealth /\ e = "none"
                         THEN SetConfigRows(config, <<"stealth_mode">>, <<"true">>)
                         ELSE config
    /\ UNCHANGED <<storeVars, codecVars>>

InitCmd ==
    /\ insights = {}
    /\ threads = {}
    /\ dependencies = {}
    /\ last = NoLast
    /\ tr = NoTrace
    /\ config = {}
    /\ db = NoDb
    /\ run = CmdRun("idle", "none", FALSE, "none")
    /\ InitCodec

StartCommandStep == \E cmd \in Commands, dryRun \in BOOLEAN : StartCommand(cmd, dryRun)
ReturnFromCommandStep == \E e \in {"none", "failed"} : ReturnFromCommand(e)
initCmdStoreStep ==
    \E stealth \in BOOLEAN, e \in {"none", "stealth mode", "SetConfig"} : initCmdStore(stealth, e)

NextCmd ==
    \/ StartCommandStep
    \/ getStore
    \/ EnableForeignKeysStep
    \/ RunMigrationsStep
    \/ getStoreReturns
    \/ ReturnFromCommandStep
    \/ initCmd
    \/ initCmdStoreStep

SpecCmd == InitCmd /\ [][NextCmd]_vars

\* C22: storeInstance, when set, is the one open handle; getStore hands out
\* the handle storeInstance holds and opens one only when there is none;
\* when a command has returned, on whatever path, no handle is open and
\* storeInstance is nil, so the next getStore opens a new handle.
C22_SingleHandle ==
    /\ [](run.storeInstance => db.handle = "open" /\ db.result = "store")
    /\ [](run.pc = "idle" => db.handle # "open" /\ ~run.storeInstance)
    /\ [][(run.pc = "getStore" /\ run'.pc = "body") =>
            /\ run.storeInstance
            /\ UNCHANGED <<db>>]_vars
    /\ [][(run.pc = "getStore" /\ ~run.storeInstance /\ FileExists) =>
            /\ db.handle = "closed"
            /\ db'.handle = "open" /\ db'.pc = "pragma"]_vars
    /\ [][(run.pc = "body" /\ run'.pc = "idle") =>
            db'.handle = "closed" /\ ~run'.storeInstance]_vars

\* witness of C22: a command that held the store has returned an error, and
\* its handle is closed
C22_Witness ==
    /\ run.pc = "idle" /\ run.cmd = "capture" /\ run.err = "failed"
    /\ db.handle = "closed" /\ db.schema = FullSchema
    /\ ~run.storeInstance
    /\ config # {}

(***************************************************************************)
(* cmd/bdc/spawn.go: bdc spawn                                             *)
(***************************************************************************)
\* beads.IsInsightID: longer than 4 bytes and starting with "ins-"
IsInsightID(id) == Len(id) > 4 /\ Chars(4, id) = <<"i", "n", "s", "-">>

\* "bead-" + GenerateID("")[4:]
PlaceholderID(bytes) ==
    LET id == GenerateID(<<>>, bytes)
    IN <<"b", "e", "a", "d", "-">> \o SubSeq(id, 5, Len(id))

\* types.NewDependency
NewDependency(from, to, depType, now) ==
    [From |-> from, To |-> to, Type |-> depType, CreatedAt |-> now]

\* runSpawn: the format of the identifier, GetInsight, then either the
\* instructions for bd create (a .beads directory is found) or a spawns
\* edge to a placeholder bead
runSpawn(insightID, beadsPresent, bytes, now) ==
    LET got == GetInsightResult(insights, insightID)
        dep == NewDependency(insightID, PlaceholderID(bytes), <<"spawns">>, now)
        e == IF ~IsInsightID(insightID) THEN "invalid insight ID format"
             ELSE IF got.err # "none" THEN "insight not found"
             ELSE IF beadsPresent THEN "none"
             ELSE AddDependencyErr(dependencies, dep)
        added == e = "none" /\ ~beadsPresent
    IN /\ dependencies' = IF added THEN dependencies \cup {DependencyRow(dep)}
                          ELSE dependencies
       /\ last' = Outcome("spawn", insightID, e,
                          [beadsPresent |-> beadsPresent,
                           bead |-> IF added THEN dep.To ELSE <<>>])
       /\ UNCHANGED <<insights, threads, tr, codecVars, sysVars>>

SpawnIns1 == <<"i", "n", "s", "-", "1">>
SpawnIns2 == <<"i", "n", "s", "-", "2">>

InitSpawn ==
    /\ insights = {InsightRow([BareInsight EXCEPT !.ID = SpawnIns1])}
    /\ threads = {}
    /\ dependencies = {}
    /\ last = NoLast
    /\ tr = NoTrace
    /\ config = {}
    /\ db = OpenedDb
    /\ run = NoRun
    /\ InitCodec

runSpawnStep ==
    \E insightID \in {SpawnIns1, SpawnIns2, <<"i", "n", "s", "-">>},
       beadsPresent \in BOOLEAN, bytes \in RandomBytes, now \in Times :
        runSpawn(insightID, beadsPresent, bytes, now)

NextSpawn == runSpawnStep

SpecSpawn == InitSpawn /\ [][NextSpawn]_vars

\* C24: spawn of a stored insight, with or without a .beads directory,
\* leaves a spawns edge from the insight to a bead identifier by which trace
\* finds the insight; spawn of an insight that is not stored returns an
\* error and adds no edge.
C24_Spawn ==
    [][last'.op = "spawn" =>
         IF \E r \in insights : r.id = last'.id
         THEN \E d \in dependencies' :
                 /\ d.from_id = last'.id /\ d.type = <<"spawns">>
                 /\ IsBeadID(d.to_id)
                 /\ (last'.err = "none" => d.to_id = last'.val.bead)
         ELSE last'.err # "none" /\ dependencies' = dependencies]_vars

(***************************************************************************)
(* The thread of an insight: FOREIGN KEY (thread_id) REFERENCES threads    *)
(***************************************************************************)
\* resolveThreadRef: a thread identifier, and any other reference, as it is
resolveThreadRef(ref) == IF ref \in ThreadIDs THEN ref ELSE ref

\* types.NewInsight with the identifier GenerateID returned
NewInsight(content, insightType, id, now) ==
    [ZeroInsight EXCEPT !.ID = id, !.Timestamp = now, !.Content = content,
                        !.Type = insightType, !.Confidence = 1,
                        !.Source = InsightSource(<<"human">>, <<>>, NilSlice),
                        !.CreatedAt = now]

\* bdc capture --thread ref: the insight captureCmd hands to CreateInsight
CapturedInsight(content, ref, id, now) ==
    [NewInsight(content, <<"hypothesis">>, id, now)
       EXCEPT !.ThreadID = IF ref # <<>> THEN resolveThreadRef(ref) ELSE <<>>]

captureCmd(content, ref, id, now) ==
    LET insight == CapturedInsight(content, ref, id, now)
        e == CreateInsightErr(insights, threads, insight)
    IN /\ insights' = IF e = "none" THEN insights \cup {InsightRow(insight)} ELSE insights
       /\ last' = Outcome("capture", id, e, ref)
       /\ UNCHANGED <<threads, dependencies, tr, codecVars, sysVars>>

ThreadRefs == {<<>>, <<"thr-1">>, <<"thr-2">>, <<"bd-1">>}

ThreadRefInputs ==
    {[BareInsight EXCEPT !.ID = id, !.ThreadID = t] : id \in InsightIDs, t \in ThreadRefs}

InitThreadRef == InitStore /\ InitCodec

ThreadRefCreateThread == CreateThread(FullThread)
ThreadRefCreate == \E insight \in ThreadRefInputs : CreateInsight(insight)
ThreadRefUpdate == \E insight \in ThreadRefInputs : UpdateInsight(insight)
ThreadRefCapture ==
    \E ref \in ThreadRefs, id \in InsightIDs : captureCmd(<<"a">>, ref, id, MaxTime)

NextThreadRef ==
    \/ ThreadRefCreateThread
    \/ ThreadRefCreate
    \/ ThreadRefUpdate
    \/ ThreadRefCapture

SpecThreadRef == InitThreadRef /\ [][NextThreadRef]_vars

ThreadStored(trows, t) == \E r \in trows : r.id = t

C26_WitnessOpenEnd ==
    /\ tr.pc = "done"
    /\ Len(tr.chain) = 3
    /\ tr.chain[1].relationFromPrev = <<>>
    /\ tr.current = <<>>

(***************************************************************************)
(* The schema after a run of the migrations that succeeded                 *)
(***************************************************************************)
\* C27: after every RunMigrations that returns success, also on a database
\* file an earlier run left behind when it stopped between two of its
\* statements, the schema is complete: the four tables, the author_id and
\* endorsed_by columns of insights and the index on author_id exist.
C27_CompleteAfterInterruption ==
    (db.pc = "idle" /\ db.result = "store") => db.schema = FullSchema

(***************************************************************************)
(* DeleteInsight on a store with threads, edges and config entries         *)
(***************************************************************************)
DeleteInputs ==
    {[BareInsight EXCEPT !.ID = id, !.ThreadID = t] :
        id \in InsightIDs, t \in {<<>>, <<"thr-1">>}}

DeleteEdges ==
    {[From |-> f, To |-> t, Type |-> <<"builds-on">>, CreatedAt |-> 1] :
        f \in InsightIDs, t \in InsightIDs \cup {<<"bead-1">>}}

InitDelete == InitStore /\ InitCodec

DeleteCreateThread == CreateThread(FullThread)
DeleteCreateInsight == \E insight \in DeleteInputs : CreateInsight(insight)
DeleteAddDependency ==
    \E dep \in DeleteEdges :
        /\ (Cardinality(dependencies) < MaxDeps \/ AddDependencyErr(dependencies, dep) # "none")
        /\ AddDependency(dep)
DeleteSetConfig == SetConfig(<<"stealth_mode">>, <<"true">>)
DeleteInsightStep == \E id \in InsightIDs : DeleteInsight(id)

NextDelete ==
    \/ DeleteCreateThread
    \/ DeleteCreateInsight
    \/ DeleteAddDependency
    \/ DeleteSetConfig
    \/ DeleteInsightStep

SpecDelete == InitDelete /\ [][NextDelete]_vars

\* C28: DeleteInsight(id) of a stored insight removes that row and no other:
\* afterwards GetInsight(id) is not found and no ListInsights result holds
\* id; every other insight, every thread, every config entry and every
\* edge is as before, and GetDependencies(id) and GetDependents(id) return
\* what they returned before, the edges from and to id included.
C28_DeleteFrame ==
    [][\A id \in InsightIDs :
        (DeleteInsight(id) /\ \E r \in insights : r.id = id) =>
            /\ last'.err = "none"
            /\ insights' \subseteq insights
            /\ insights \ insights' = {r \in insights : r.id = id}
            /\ Cardinality(insights \ insights') = 1
            /\ GetInsightResult(insights', id).err = "not_found"
            /\ \A q \in ListInsights(<<>>, <<>>, 0)' :
                  \A i \in 1..Len(q) : q[i].ID # id
            /\ \A other \in InsightIDs \ {id} :
                  GetInsightResult(insights', other) = GetInsightResult(insights, other)
            /\ threads' = threads
            /\ config' = config
            /\ dependencies' = dependencies
            /\ GetDependencies(id)' = GetDependencies(id)
            /\ GetDependents(id)' = GetDependents(id)
            /\ \A r \in dependencies : r.from_id = id =>
                  \A q \in GetDependencies(id)' : \E i \in 1..Len(q) : q[i] = ScanDependency(r)
            /\ \A r \in dependencies : r.to_id = id =>
                  \A q \in GetDependents(id)' : \E i \in 1..Len(q) : q[i] = ScanDependency(r)]_vars

\* witness of C28: ins-1 has been deleted while ins-2, a thread, a config
\* entry and edges from and to ins-1 are stored
C28_Witness ==
    /\ last.op = "DeleteInsight" /\ last.err = "none" /\ last.id = <<"ins-1">>
    /\ \E r \in insights : r.id = <<"ins-2">> /\ ~r.thread_id.null
    /\ threads # {} /\ config # {}
    /\ \E r \in dependencies : r.from_id = <<"ins-1">> /\ r.to_id = <<"ins-2">>
    /\ \E r \in dependencies : r.to_id = <<"ins-1">>
    /\ \A r \in insights : r.id # <<"ins-1">>

(***************************************************************************)
(* Import of the file Export wrote, records of every size                  *)
(***************************************************************************)
\* C29: for every collection of records, whatever the length of their text
\* fields and so of their lines, Import of the file Export wrote succeeds
\* and returns as many records as were exported.
C29_ImportAcceptsExport ==
    (Untouched /\ imported.done) =>
        (imported.err = "none" /\ Len(imported.items) = Len(exported.items))

(***************************************************************************)
(* cmd/bdc/import.go: runImport from the extracted insights on             *)
(***************************************************************************)
\* what a run of bdc import left: whether getStore was called, the error
\* returned and the count of "Saved %d insights."
ImportRun(opened, e, saved) ==
    [pc |-> "idle", cmd |-> "import", opened |-> opened, err |-> e, saved |-> saved]

\* "Set thread if specified"
SetThread(extracted, thread) ==
    IF thread # <<>>
    THEN [i \in 1..Len(extracted) |-> [extracted[i] EXCEPT !.ThreadID = thread]]
    ELSE extracted

\* a save loop that returns at the first insert that fails
RECURSIVE SaveLoop_StopAtFailure(_, _, _, _)
SaveLoop_StopAtFailure(irows, trows, list, saved) ==
    IF list = <<>> THEN [rows |-> irows, saved |-> saved]
    ELSE IF CreateInsightErr(irows, trows, Head(list)) # "none"
         THEN [rows |-> irows, saved |-> saved]
         ELSE SaveLoop_StopAtFailure(irows \cup {InsightRow(Head(list))}, trows,
                                     Tail(list), saved + 1)

\* the save loop: CreateInsight of each insight, a failure is warned of and
\* passed over
RECURSIVE SaveLoop(_, _, _, _)
SaveLoop(irows, trows, list, saved) ==
    IF list = <<>> THEN [rows |-> irows, saved |-> saved]
    ELSE IF CreateInsightErr(irows, trows, Head(list)) # "none"
         THEN SaveLoop(irows, trows, Tail(list), saved)
         ELSE SaveLoop(irows \cup {InsightRow(Head(list))}, trows, Tail(list), saved + 1)

runImport(extracted, thread, dryRun) ==
    LET list == SetThread(extracted, thread)
        done == SaveLoop(insights, threads, list, 0)
    IN /\ IF Len(list) = 0 \/ dryRun
          THEN run' = ImportRun(FALSE, "none", 0) /\ insights' = insights
          ELSE IF thread # <<>> /\ GetThreadResult(threads, thread).err # "none"
          THEN run' = ImportRun(TRUE, "thread not found", 0) /\ insights' = insights
          ELSE run' = ImportRun(TRUE, "none", done.saved) /\ insights' = done.rows
       /\ last' = Outcome("runImport", thread, run'.err,
                           [extracted |-> extracted, dryRun |-> dryRun])
       /\ UNCHANGED <<threads, dependencies, tr, codecVars, config, db>>

\* the insights the parsers hand over: none, one or two, also two with the
\* same identifier
Extracted ==
    SeqsUpTo({[BareInsight EXCEPT !.ID = <<"ins-1">>],
              [BareInsight EXCEPT !.ID = <<"ins-2">>],
              [BareInsight EXCEPT !.ID = <<"ins-2">>, !.Content = <<"b">>]}, MaxRecords)

ImportThreads_ == {<<>>, <<"thr-1">>, <<"thr-2">>}

InitImport == InitStore /\ InitCodec

ImportCreateThread == CreateThread(FullThread)
ImportCreateInsight == CreateInsight([BareInsight EXCEPT !.ID = <<"ins-1">>])
runImportStep ==
    \E extracted \in Extracted, thread \in ImportThreads_, dryRun \in BOOLEAN :
        runImport(extracted, thread, dryRun)

NextImport ==
    \/ ImportCreateThread
    \/ ImportCreateInsight
    \/ runImportStep

SpecImport == InitImport /\ [][NextImport]_vars

\* with --dry-run the store is neither opened nor changed
DryRunLeavesStore(dryRun) ==
    dryRun => (~run'.opened /\ TablesUnchanged /\ config' = config /\ db' = db)

\* the thread is stored (or none is named): every extracted insight is
\* inserted on its own, the first of an identifier that is not stored yet
\* is added with the thread set, the others are passed over, the command
\* succeeds and the count is the number of rows added
SavedIndependently(extracted, thread) ==
    LET list == SetThread(extracted, thread)
        added == {InsightRow(list[i]) : i \in
                     {k \in 1..Len(list) :
                        /\ ~InsightKeyTaken(insights, list[k].ID)
                        /\ \A j \in 1..(k - 1) : list[j].ID # list[k].ID}}
    IN /\ run'.err = "none"
       /\ insights' = insights \cup added
       /\ run'.saved = Cardinality(insights') - Cardinality(insights)
       /\ threads' = threads /\ dependencies' = dependencies

\* the original statement of C30: --dry-run never opens or changes the
\* store; (without it) --thread naming a thread that is not stored gives an
\* error and saves nothing; otherwise the insights are inserted
\* independently, failures are passed over, the command succeeds and the
\* saved count is the number of insights added.
C30_Original ==
    [][last'.op = "runImport" =>
        LET extracted == last'.val.extracted
            thread == last'.id
            dryRun == last'.val.dryRun
        IN
            /\ DryRunLeavesStore(dryRun)
            /\ (~dryRun /\ thread # <<>> /\ ~ThreadStored(threads, thread)) =>
                  (run'.err # "none" /\ TablesUnchanged)
            /\ (~dryRun /\ (thread = <<>> \/ ThreadStored(threads, thread))) =>
                  SavedIndependently(extracted, thread)]_vars

\* C30 as amended: --dry-run never opens or changes the store; without it,
\* when at least one insight was extracted and --thread names a thread
\* that is not stored, the command returns an error and saves nothing;
\* when no insight was extracted the command succeeds without opening the
\* store, whatever --thread names; otherwise the insights are inserted
\* independently, failures are passed over, the command succeeds and the
\* saved count is the number of insights added.
C30_ImportPersistence ==
    [][last'.op = "runImport" =>
        LET extracted == last'.val.extracted
            thread == last'.id
            dryRun == last'.val.dryRun
        IN
            /\ DryRunLeavesStore(dryRun)
            /\ Len(extracted) = 0 =>
                  (run'.err = "none" /\ ~run'.opened /\ TablesUnchanged)
            /\ (~dryRun /\ Len(extracted) > 0 /\ thread # <<>>
                /\ ~ThreadStored(threads, thread)) =>
                  (run'.err # "none" /\ run'.saved = 0 /\ TablesUnchanged)
            /\ (~dryRun /\ Len(extracted) > 0
                /\ (thread = <<>> \/ ThreadStored(threads, thread))) =>
                  (run'.opened /\ SavedIndependently(extracted, thread))]_vars

\* witness of C30: an import into a stored thread saved one insight and
\* passed over another whose identifier was stored before
C30_Witness ==
    /\ last.op = "runImport" /\ last.id = <<"thr-1">>
    /\ Len(last.val.extracted) = 2
    /\ run.opened /\ run.err = "none" /\ run.saved = 1
    /\ \E r \in insights : r.id = <<"ins-1">> /\ r.thread_id.null
    /\ \E r \in insights : r.id = <<"ins-2">> /\ ~r.thread_id.null

====
